---- MODULE Spec2Model ----
(***************************************************************************)
(* A model of the Handa Uncle finance playground backend: the layered      *)
(* pipeline (classifier, context validation, web search, recommendation    *)
(* generation with the validation/repair loop), its streaming variant, the *)
(* web-search cache and the /v1/chat SSE stream.                           *)
(*                                                                         *)
(* Text is modelled as a tuple of one-character strings, so that           *)
(* toLowerCase and the regular-expression scan are computed.  Amounts and  *)
(* money are integers.  Time is a millisecond clock advanced in ticks.     *)
(***************************************************************************)
EXTENDS Integers, Sequences, FiniteSets, TLC

VARIABLES
  \* ---- validateRecommendation called on its own (validator.ts)
  vData,            \* the candidate handed to validateRecommendation
  vContext,         \* the user context handed to it
  vNeeds,           \* the needsRecommendations argument: Some(TRUE), Some(FALSE) or Undefined
  vResult,          \* what validateRecommendation returned, or NoResult
  \* ---- one request through processQuery / processQueryStreaming
  mode,             \* "idle", "processQuery" or "processQueryStreaming"
  pc,               \* the await the request is suspended at, or "done"
  userContext,      \* the userContext argument
  classification,   \* what classifyQuery returned
  classifierCompletion, \* what the classifier's completion call did
  webSearchResult,  \* the orchestrator's local webSearchResult
  calls,            \* the stage calls made so far, in order
  attempt,          \* the repair loop's attempt (0-based)
  lastOutput,       \* the repair loop's lastOutput
  lastErrors,       \* the repair loop's lastErrors
  repairResult,     \* what generateValidatedRecommendation returned
  fedBack,          \* what each generation call was given: previous output and errors
  outcomes,         \* how each generation call of the repair loop ended
  thrownBy,         \* the stage whose exception reached the orchestrator, or ""
  response,         \* the PlaygroundResponse returned (or sent last), or NoResponse
  propagated,       \* an exception left processQuery / processQueryStreaming
  sse,              \* the SSE events written by processQueryStreaming, in order
  \* ---- performWebSearch calls sharing searchCache (webSearch.ts)
  now,              \* Date.now(), in milliseconds
  searchCache,      \* key -> the entry { result, timestamp } of the Map, if any
  pending,          \* the performWebSearch calls that are suspended at an await
  returned,         \* the performWebSearch calls that have ended, in order
  stores,           \* the searchCache.set calls made, in order
  nextCall,         \* the number of the next performWebSearch call
  \* ---- one request through processChatStreaming (chat.service.ts)
  chatPc,           \* the await the request is suspended at, or "done"
  ctx,              \* the StreamContextManager created at stream begin
  resEvents,        \* the events written to the response, in order
  keepaliveInterval,\* the keepalive timer is set
  resEnded,         \* res.end() was called
  messages,         \* the roles of conversation.messages
  \* ---- processQuery and processQueryStreaming given the same answers
  twinInputs,       \* what the classifier, the search and the generator answer
  twinSync,         \* the type of the response processQuery returned, or ""
  twinStream,       \* the type of the response processQueryStreaming sent, or ""
  \* ---- the outbound response of a streaming request
  resEndCalls,      \* the number of res.end() calls made
  abortedAt,        \* the events written when the caller disconnected, or -1
  \* ---- one stream read by generateStreamingRecommendation (recommender)
  streamRest,       \* the characters the completion stream has not delivered yet
  fullContent,      \* the characters received so far
  lastStreamedLength, \* the length of the narrative passed to onToken so far
  streamed,         \* the concatenation of the texts passed to onToken
  lastToken,        \* the text of the latest onToken call
  \* ---- the conversations Map of chat.service.ts and the requests using it
  conversations,    \* the ids that are keys of the Map
  conversationObjects, \* id -> the Conversation object created under that id
  uuids,            \* the number of conversation ids uuidv4() has produced
  requests,         \* the chat requests: position, conversation held, isNew
  deleted,          \* the ids for which deleteConversation returned true
  raced             \* the requests that were generating when their conversation was deleted

validatorVars == <<vData, vContext, vNeeds, vResult>>
pipelineVars == <<mode, pc, userContext, classification, classifierCompletion, webSearchResult, calls,
                  attempt, lastOutput, lastErrors, repairResult, fedBack, outcomes,
                  thrownBy, response, propagated, sse>>
cacheVars == <<now, searchCache, pending, returned, stores, nextCall>>
chatVars == <<chatPc, ctx, resEvents, keepaliveInterval, resEnded, messages>>
twinVars == <<twinInputs, twinSync, twinStream>>
connVars == <<resEndCalls, abortedAt>>
extractVars == <<streamRest, fullContent, lastStreamedLength, streamed, lastToken>>
storeVars == <<conversations, conversationObjects, uuids, requests, deleted, raced>>
vars == <<validatorVars, pipelineVars, cacheVars, chatVars, twinVars, connVars,
          extractVars, storeVars>>


\* an optional value: {} when it is undefined, {v} when it is v
Undefined == {}
Some(v) == {v}
Truthy(o) == TRUE \in o

----------------------------------------------------------------------------
(* Bounds of the model *)

\* amounts of a recommendation range over -1 .. MaxAmount
MaxAmount == 3
\* monthly_income and monthly_expenses range over -1 .. MaxMoney
MaxMoney == 3

----------------------------------------------------------------------------
(* Text: String.prototype.toLowerCase and RegExp.prototype.test *)

UPPER == <<"A","B","C","D","E","F","G","H","I","J","K","L","M",
           "N","O","P","Q","R","S","T","U","V","W","X","Y","Z">>
LOWER == <<"a","b","c","d","e","f","g","h","i","j","k","l","m",
           "n","o","p","q","r","s","t","u","v","w","x","y","z">>

LowerChar(c) ==
  IF \E i \in 1..26 : UPPER[i] = c
  THEN LOWER[CHOOSE i \in 1..26 : UPPER[i] = c]
  ELSE c

toLowerCase(s) == [i \in 1..Len(s) |-> LowerChar(s[i])]

IsWhitespace(c) == c \in {" ", "\t", "\n"}

WS == "\\s*"

\* a pattern is a tuple of tokens: a lower-case character, or WS for \s*
RECURSIVE MatchAt(_, _, _, _)
MatchAt(p, i, s, j) ==
  IF i > Len(p) THEN TRUE
  ELSE IF p[i] = WS
       THEN \/ MatchAt(p, i + 1, s, j)
            \/ (j <= Len(s) /\ IsWhitespace(s[j]) /\ MatchAt(p, i, s, j + 1))
       ELSE /\ j <= Len(s)
            /\ LowerChar(s[j]) = p[i]      \* the i flag
            /\ MatchAt(p, i + 1, s, j + 1)

\* pattern.test(s): the pattern matches somewhere in s
Test(p, s) == \E j \in 1..(Len(s) + 1) : MatchAt(p, 1, s, j)

\* /nifty\s*50\s*(call|put)/i is written as its two alternatives
FORBIDDEN_PATTERNS ==
  << <<"s","t","o","c","k">>,
     <<"s","h","a","r","e">>,
     <<"c","r","y","p","t","o">>,
     <<"b","i","t","c","o","i","n">>,
     <<"e","t","h","e","r","e","u","m">>,
     <<"o","p","t","i","o","n">>,
     <<"f","u","t","u","r","e">>,
     <<"d","e","r","i","v","a","t","i","v","e">>,
     <<"n","i","f","t","y",WS,"5","0",WS,"c","a","l","l">>,
     <<"n","i","f","t","y",WS,"5","0",WS,"p","u","t">>,
     <<"f",WS,"&",WS,"o">> >>

\* the texts the generator may put in instrument.name and rationale
TextNifty   == <<"N","i","f","t","y"," ","5","0">>
TextLiquid  == <<"L","i","q","u","i","d">>
TextSTOCK   == <<"S","T","O","C","K">>
TextFnO     == <<"F"," ","&"," ","O">>
TextPut     == <<"N","i","f","t","y","5","0"," ","P","u","t">>

----------------------------------------------------------------------------
(* types/schemas.ts *)

\* the fields of UserFinanceContext that the model varies; the other fields
\* (mutual_fund_holdings, investment_horizon_years, dependents,
\* emergency_fund_months) are held at conforming values
RiskProfiles == {"low", "moderate", "high"}

\* a schema with no constraint on monthly_income
UserFinanceContextIssuesLax(context) ==
  (IF context.monthly_expenses > 0 THEN <<>> ELSE <<"monthly_expenses">>) \o
  (IF context.bank_balance >= 0 THEN <<>> ELSE <<"bank_balance">>) \o
  (IF context.risk_profile \in RiskProfiles THEN <<>> ELSE <<"risk_profile">>)

\* UserFinanceContextSchema.parse: the issues, in the order of the schema's keys
UserFinanceContextIssues(context) ==
  (IF context.monthly_income > 0 THEN <<>> ELSE <<"monthly_income">>) \o
  (IF context.monthly_expenses > 0 THEN <<>> ELSE <<"monthly_expenses">>) \o
  (IF context.bank_balance >= 0 THEN <<>> ELSE <<"bank_balance">>) \o
  (IF context.risk_profile \in RiskProfiles THEN <<>> ELSE <<"risk_profile">>)

\* ClassificationResultSchema.parse of a parsed JSON object: a z.object keeps
\* the keys of its shape and strips every other key
\* (confidence is in tenths: z.number().min(0).max(1))
ClassificationSchemaOk(parsed) ==
  /\ parsed.is_indian_finance # Undefined
  /\ parsed.confidence \in 0..10
  /\ parsed.reason # Undefined

ClassificationResultSchemaParse(parsed) ==
  [is_indian_finance |-> TRUE \in parsed.is_indian_finance,
   confidence |-> parsed.confidence,
   reason |-> "llm",
   needs_web_search |-> Undefined,
   needs_recommendations |-> Undefined]

InstrumentCategories == {"mutual_fund", "index_fund", "debt_fund", "liquid_fund", "elss"}
ExecutionLabel == "Execute (Coming Soon)"

Flatten(ss) ==
  LET RECURSIVE Go(_)
      Go(i) == IF i > Len(ss) THEN <<>> ELSE ss[i] \o Go(i + 1)
  IN Go(1)

Issue(rule, index, field) == [rule |-> rule, index |-> index, field |-> field]

\* an item schema whose execution.enabled is any boolean
RecommendationItemIssuesAnyEnabled(rec, i) ==
  (IF rec.instrument.category \in InstrumentCategories
   THEN <<>> ELSE <<Issue("schema", i, "instrument.category")>>) \o
  (IF rec.amount > 0
   THEN <<>> ELSE <<Issue("schema", i, "amount")>>) \o
  (IF rec.execution.label = ExecutionLabel
   THEN <<>> ELSE <<Issue("schema", i, "execution.label")>>)

\* RecommendationItemSchema: the issues of item i (name, rationale and action
\* are always a string, a string and a member of the enum in the model)
RecommendationItemIssues(rec, i) ==
  (IF rec.instrument.category \in InstrumentCategories
   THEN <<>> ELSE <<Issue("schema", i, "instrument.category")>>) \o
  (IF rec.amount > 0
   THEN <<>> ELSE <<Issue("schema", i, "amount")>>) \o
  (IF rec.execution.enabled = FALSE
   THEN <<>> ELSE <<Issue("schema", i, "execution.enabled")>>) \o
  (IF rec.execution.label = ExecutionLabel
   THEN <<>> ELSE <<Issue("schema", i, "execution.label")>>)

\* RecommendationOutputSchema.parse: the issues, in the order of the schema's keys
\* (data.keys is the set of top-level keys that are present and well-typed;
\* data.recommendations is <<>> when the key is absent)
RecommendationOutputIssues(data) ==
  (IF "conversational_response" \in data.keys
   THEN <<>> ELSE <<Issue("schema", 0, "conversational_response")>>) \o
  (IF "context" \in data.keys THEN <<>> ELSE <<Issue("schema", 0, "context")>>) \o
  (IF "situation" \in data.keys THEN <<>> ELSE <<Issue("schema", 0, "situation")>>) \o
  (IF "analysis" \in data.keys THEN <<>> ELSE <<Issue("schema", 0, "analysis")>>) \o
  (IF "recommendations" \notin data.keys
   THEN <<Issue("schema", 0, "recommendations")>>
   ELSE Flatten([i \in 1..Len(data.recommendations) |->
                   RecommendationItemIssues(data.recommendations[i], i)]))

----------------------------------------------------------------------------
(* layers/context.ts *)

computeDerivedMetrics(context) ==
  [monthly_surplus |-> context.monthly_income - context.monthly_expenses]

validateUserContext(context) ==
  LET issues == UserFinanceContextIssues(context)
  IN IF issues = <<>>
     THEN [valid |-> TRUE, context |-> context, errors |-> <<>>]
     ELSE [valid |-> FALSE, context |-> context, errors |-> issues]

----------------------------------------------------------------------------
(* layers/validator.ts *)

MAX_REPAIR_ATTEMPTS == 2

\* the data field of a result that carries no data
NoData == [keys |-> {}, recommendations |-> <<>>]

validateSchema(data) ==
  LET issues == RecommendationOutputIssues(data)
  IN IF issues = <<>>
     THEN [valid |-> TRUE, errors |-> <<>>, data |-> data]
     ELSE [valid |-> FALSE, errors |-> issues, data |-> NoData]

TotalOf(recs, action) ==
  LET RECURSIVE Go(_)
      Go(i) == IF i > Len(recs) THEN 0
               ELSE (IF recs[i].action = action THEN recs[i].amount ELSE 0) + Go(i + 1)
  IN Go(1)

\* Rule 3's inner loop: some pattern matches the lower-cased name or rationale
ContainsForbidden(rec) ==
  LET name == toLowerCase(rec.instrument.name)
      rationale == toLowerCase(rec.rationale)
  IN \E k \in 1..Len(FORBIDDEN_PATTERNS) :
        Test(FORBIDDEN_PATTERNS[k], name) \/ Test(FORBIDDEN_PATTERNS[k], rationale)

allowedCategories == {"mutual_fund", "index_fund", "debt_fund", "liquid_fund", "elss"}

\* Rule 1 left out
NetMoneyUnchecked(recs, metrics) == <<>>

\* Rule 1 with a limit one above the surplus
NetMoneyOverByOne(recs, metrics) ==
  LET netNewMoneyNeeded == TotalOf(recs, "BUY") - TotalOf(recs, "SELL")
  IN IF netNewMoneyNeeded > metrics.monthly_surplus + 1
     THEN <<Issue("net_money", 0, "amount")>> ELSE <<>>

\* Rule 1: net new money
NetMoneyErrors(recs, metrics) ==
  LET netNewMoneyNeeded == TotalOf(recs, "BUY") - TotalOf(recs, "SELL")
  IN IF netNewMoneyNeeded > metrics.monthly_surplus
     THEN <<Issue("net_money", 0, "amount")>> ELSE <<>>

\* Rule 2: the amount by action type
AmountErrors(recs) ==
  Flatten([i \in 1..Len(recs) |->
    IF recs[i].action = "HOLD"
    THEN (IF recs[i].amount < 0 THEN <<Issue("hold_amount", i, "amount")>> ELSE <<>>)
    ELSE (IF recs[i].amount <= 0 THEN <<Issue("amount", i, "amount")>> ELSE <<>>)])

\* a scan that trusts the category: only other categories are scanned
ForbiddenErrorsByCategory(recs) ==
  Flatten([i \in 1..Len(recs) |->
    IF recs[i].instrument.category \notin allowedCategories /\ ContainsForbidden(recs[i])
    THEN <<Issue("forbidden", i, "instrument.name")>> ELSE <<>>])

\* Rule 3: forbidden instruments
ForbiddenErrors(recs) ==
  Flatten([i \in 1..Len(recs) |->
    IF ContainsForbidden(recs[i]) THEN <<Issue("forbidden", i, "instrument.name")>> ELSE <<>>])

\* Rule 4: instrument categories
CategoryErrors(recs) ==
  Flatten([i \in 1..Len(recs) |->
    IF recs[i].instrument.category \notin allowedCategories
    THEN <<Issue("category", i, "instrument.category")>> ELSE <<>>])

\* Rule 5: execution must be disabled
ExecutionErrors(recs) ==
  Flatten([i \in 1..Len(recs) |->
    IF recs[i].execution.enabled # FALSE
    THEN <<Issue("execution", i, "execution.enabled")>> ELSE <<>>])

\* business rules that stop at the first rule that is violated
validateBusinessRulesFirstOnly(data, context, needsRecommendations) ==
  IF \/ ~needsRecommendations
     \/ "recommendations" \notin data.keys
     \/ Len(data.recommendations) = 0
  THEN <<>>
  ELSE LET metrics == computeDerivedMetrics(context)
           recs == data.recommendations
       IN IF NetMoneyErrors(recs, metrics) # <<>> THEN NetMoneyErrors(recs, metrics)
          ELSE IF AmountErrors(recs) # <<>> THEN AmountErrors(recs)
          ELSE IF ForbiddenErrors(recs) # <<>> THEN ForbiddenErrors(recs)
          ELSE IF CategoryErrors(recs) # <<>> THEN CategoryErrors(recs)
          ELSE ExecutionErrors(recs)

validateBusinessRules(data, context, needsRecommendations) ==
  IF \/ ~needsRecommendations
     \/ "recommendations" \notin data.keys
     \/ Len(data.recommendations) = 0
  THEN <<>>
  ELSE LET metrics == computeDerivedMetrics(context)
           recs == data.recommendations
       IN NetMoneyErrors(recs, metrics) \o AmountErrors(recs) \o ForbiddenErrors(recs)
            \o CategoryErrors(recs) \o ExecutionErrors(recs)

\* the default parameter value: needsRecommendations: boolean = true
DefaultTrue(needsRecommendations) ==
  IF needsRecommendations = Undefined THEN TRUE ELSE Truthy(needsRecommendations)

\* a validator that runs the business rules on a candidate the schema rejected
validateRecommendationBothStages(data, context, needsRecommendations) ==
  LET schemaResult == validateSchema(data)
      businessErrors == validateBusinessRules(data, context,
                                              DefaultTrue(needsRecommendations))
  IN IF Len(schemaResult.errors) + Len(businessErrors) > 0
     THEN [valid |-> FALSE, errors |-> schemaResult.errors \o businessErrors,
           data |-> schemaResult.data]
     ELSE [valid |-> TRUE, errors |-> <<>>, data |-> schemaResult.data]

validateRecommendation(data, context, needsRecommendations) ==
  LET schemaResult == validateSchema(data)
  IN IF ~schemaResult.valid THEN schemaResult
     ELSE LET businessErrors ==
                validateBusinessRules(schemaResult.data, context,
                                      DefaultTrue(needsRecommendations))
          IN IF Len(businessErrors) > 0
             THEN [valid |-> FALSE, errors |-> businessErrors, data |-> schemaResult.data]
             ELSE [valid |-> TRUE, errors |-> <<>>, data |-> schemaResult.data]


----------------------------------------------------------------------------
(* The candidates and contexts the checks draw from *)

Actions == {"BUY", "SELL", "HOLD"}
Amounts == -1..MaxAmount
AllKeys == {"conversational_response", "context", "situation", "analysis", "recommendations"}

Rec(name, category, action, rationale, amount, enabled, label) ==
  [instrument |-> [name |-> name, category |-> category],
   action |-> action, rationale |-> rationale, amount |-> amount,
   execution |-> [enabled |-> enabled, label |-> label]]

\* a recommendation that breaks no rule by itself
CleanRec(action, amount) ==
  Rec(TextNifty, "index_fund", action, TextLiquid, amount, FALSE, ExecutionLabel)

WideRecs ==
  {Rec(n, c, a, r, m, e, ExecutionLabel) :
     n \in {TextNifty, TextSTOCK}, c \in {"index_fund", "stock"}, a \in Actions,
     r \in {TextLiquid, TextFnO}, m \in Amounts, e \in BOOLEAN}
  \cup {Rec(TextNifty, "index_fund", a, TextLiquid, 1, FALSE, "Execute") : a \in Actions}

SecondRecs == {CleanRec(a, m) : a \in Actions, m \in {1, MaxAmount}}

Candidate(keys, recs) == [keys |-> keys, recommendations |-> recs]

\* the parsed generator outputs validateRecommendation is checked on
ValidatorCandidates ==
  {Candidate(AllKeys, <<>>),
   Candidate(AllKeys \ {"analysis", "recommendations"}, <<>>),
   Candidate(AllKeys \ {"conversational_response"}, <<CleanRec("BUY", 1)>>)}
  \cup {Candidate(AllKeys, <<r>>) : r \in WideRecs}
  \cup {Candidate(AllKeys, <<r, q>>) : r \in WideRecs, q \in SecondRecs}

Context(income, expenses, balance, risk) ==
  [monthly_income |-> income, monthly_expenses |-> expenses,
   bank_balance |-> balance, risk_profile |-> risk]

\* contexts that pass validateUserContext (the validator is only called with one)
ValidContexts ==
  {Context(i, e, 0, "moderate") : i \in 1..MaxMoney, e \in 1..MaxMoney}

----------------------------------------------------------------------------
(* Parked values: what each group of variables holds while another
   specification runs *)

NoResult == [valid |-> FALSE, errors |-> <<>>, data |-> NoData]
NoClassification ==
  [is_indian_finance |-> FALSE, confidence |-> 0, reason |-> "none",
   needs_web_search |-> Undefined, needs_recommendations |-> Undefined]
NoCompletion ==
  [kind |-> "none", is_indian_finance |-> Undefined, confidence |-> 0,
   reason |-> Undefined, needs_web_search |-> Undefined,
   needs_recommendations |-> Undefined]
NoResponse == [type |-> "none", layer |-> "", validation_attempts |-> 0,
               recommendation |-> NoData, web_search |-> Undefined]
NoRepairResult == [success |-> FALSE, attempts |-> 0, errors |-> <<>>, data |-> NoData]

ValidatorParked ==
  /\ vData = NoData
  /\ vContext = Context(1, 1, 0, "moderate")
  /\ vNeeds = Undefined
  /\ vResult = NoResult

PipelineParked ==
  /\ mode = "idle"
  /\ pc = "idle"
  /\ userContext = Context(1, 1, 0, "moderate")
  /\ classification = NoClassification
  /\ classifierCompletion = NoCompletion
  /\ webSearchResult = Undefined
  /\ calls = <<>>
  /\ attempt = 0
  /\ lastOutput = NoData
  /\ lastErrors = <<>>
  /\ repairResult = NoRepairResult
  /\ fedBack = <<>>
  /\ outcomes = <<>>
  /\ thrownBy = ""
  /\ response = NoResponse
  /\ propagated = FALSE
  /\ sse = <<>>

NoSearchResult == [funds |-> 0, search_timestamp |-> 0]

\* new Map(): no key has an entry
EmptyMap == [k \in {} |-> [result |-> NoSearchResult, timestamp |-> 0]]

CacheParked ==
  /\ now = 0
  /\ searchCache = EmptyMap
  /\ pending = {}
  /\ returned = <<>>
  /\ stores = <<>>
  /\ nextCall = 1

ChatParked ==
  /\ chatPc = "idle"
  /\ ctx = [sequence |-> 0, blockId |-> 0]
  /\ resEvents = <<>>
  /\ keepaliveInterval = FALSE
  /\ resEnded = FALSE
  /\ messages = <<>>
  /\ resEndCalls = 0
  /\ abortedAt = -1

NoInputs ==
  [completion |-> NoCompletion, context |-> Context(1, 1, 0, "moderate"),
   search |-> "returns", outputs |-> <<>>]

TwinParked ==
  /\ twinInputs = NoInputs
  /\ twinSync = ""
  /\ twinStream = ""

ExtractParked ==
  /\ streamRest = <<>>
  /\ fullContent = <<>>
  /\ lastStreamedLength = 0
  /\ streamed = <<>>
  /\ lastToken = <<>>

StoreParked ==
  /\ conversations = {}
  /\ conversationObjects = <<>>
  /\ uuids = 0
  /\ requests = <<>>
  /\ deleted = {}
  /\ raced = {}

----------------------------------------------------------------------------
(* SpecValidator: validateRecommendation applied to every candidate *)

InitValidator ==
  /\ TwinParked
  /\ ExtractParked
  /\ StoreParked
  /\ vData \in ValidatorCandidates
  /\ vContext \in ValidContexts
  /\ vNeeds \in {Undefined, Some(TRUE), Some(FALSE)}
  /\ vResult = NoResult
  /\ PipelineParked
  /\ CacheParked
  /\ ChatParked

Validate ==
  /\ vResult = NoResult
  /\ vResult' = validateRecommendation(vData, vContext, vNeeds)
  /\ UNCHANGED <<vData, vContext, vNeeds, pipelineVars, cacheVars, chatVars, twinVars, connVars, extractVars, storeVars>>

NextValidator == Validate

SpecValidator == InitValidator /\ [][NextValidator]_vars


----------------------------------------------------------------------------
(* layers/classifier.ts *)

\* what the classification completion call does: it throws, returns empty
\* content, returns text that is not JSON, or returns a JSON object
ClassifierCompletions ==
  [kind : {"throws", "empty", "not_json"},
   is_indian_finance : {Undefined}, confidence : {0}, reason : {Undefined},
   needs_web_search : {Undefined}, needs_recommendations : {Undefined}]
  \cup
  [kind : {"json"},
   is_indian_finance : {Undefined, Some(TRUE), Some(FALSE)},
   confidence : {3, 9, 11}, reason : {Some("text")},
   needs_web_search : {Undefined, Some(TRUE), Some(FALSE)},
   needs_recommendations : {Some(TRUE), Some(FALSE)}]

\* a catch block that rejects the query
ClassificationErrorClosed ==
  [is_indian_finance |-> FALSE, confidence |-> 0, reason |-> "Classification error",
   needs_web_search |-> Undefined, needs_recommendations |-> Undefined]

\* the value of the catch block
ClassificationError ==
  [is_indian_finance |-> TRUE, confidence |-> 5, reason |-> "Classification error",
   needs_web_search |-> Some(TRUE), needs_recommendations |-> Some(TRUE)]

classifyQuery(completion) ==
  IF completion.kind = "json" /\ ClassificationSchemaOk(completion)
  THEN ClassificationResultSchemaParse(completion)
  ELSE ClassificationError

----------------------------------------------------------------------------
(* layers/orchestrator.ts, layers/streamingOrchestrator.ts and the repair
   loop of layers/validator.ts: one request, one step per await *)

\* the words of the rejection message streamed by processQueryStreaming
MaxRejectionWords == 2
\* the narrative tokens generateStreamingRecommendation passes to onToken
MaxTokens == 2

\* the userContext arguments of a request
RequestContexts ==
  {Context(i, e, 0, r) : i \in {-1, MaxMoney}, e \in {1, MaxMoney + 1},
                         r \in {"moderate", "reckless"}}

\* what performWebSearch returns (the number of funds found)
WebSearchResults == {[funds |-> 0], [funds |-> 1]}

\* the parsed outputs of the generator
GeneratorOutputs ==
  {Candidate(AllKeys, <<CleanRec("BUY", 1)>>),
   Candidate(AllKeys, <<CleanRec("BUY", MaxMoney + 1)>>),
   Candidate(AllKeys, <<Rec(TextNifty, "stock", "BUY", TextLiquid, 1, FALSE, ExecutionLabel)>>),
   Candidate(AllKeys, <<Rec(TextSTOCK, "index_fund", "BUY", TextLiquid, 1, FALSE, ExecutionLabel)>>),
   Candidate(AllKeys \ {"analysis", "recommendations"}, <<>>)}

Event(type, data) == [type |-> type, data |-> data]

Thrown == <<Issue("thrown", 0, "message")>>

RejectionResponse ==
  [NoResponse EXCEPT !.type = "rejection"]
ErrorResponse(layer) ==
  [NoResponse EXCEPT !.type = "error", !.layer = layer]
SuccessResponse(data, attempts, search) ==
  [NoResponse EXCEPT !.type = "success", !.recommendation = data,
                     !.validation_attempts = attempts, !.web_search = search]

\* a gate that never rejects
RejectsNever(c) == FALSE

\* a gate that also turns away a classification of low confidence
RejectsLowConfidence(c) == ~c.is_indian_finance \/ c.confidence < 5

\* if (!classification.is_indian_finance)
Rejects(c) == ~c.is_indian_finance

\* a web search that is mandatory
NeedsWebSearchAlways(c) == TRUE

\* if (classification.needs_web_search)
NeedsWebSearch(c) == Truthy(c.needs_web_search)

\* a loop that stops one attempt early
LoopContinuesStrict(a) == a < MAX_REPAIR_ATTEMPTS

\* for (let attempt = 0; attempt <= MAX_REPAIR_ATTEMPTS; attempt++)
LoopContinues(a) == a <= MAX_REPAIR_ATTEMPTS

\* a result that reports the loop index
SuccessAttemptsIndex(a) == a

\* attempts: attempt + 1
SuccessAttempts(a) == a + 1

\* sendSSE, in processQueryStreaming only
Sent(events) == IF mode = "processQueryStreaming" THEN sse \o events ELSE sse

\* an exit that writes its event and, lacking a return, goes on to the final
\* done event
FinishWithoutReturn(r, events) ==
  /\ response' = r
  /\ pc' = "done"
  /\ sse' = Sent(events \o <<Event(IF r.type = "error" THEN "error" ELSE "done", r.type),
                             Event("done", "success")>>)

\* the request ends: processQuery returns r, processQueryStreaming sends it
\* in a done event (rejection, success) or an error event
Finish(r, events) ==
  /\ response' = r
  /\ pc' = "done"
  /\ sse' = Sent(events \o <<Event(IF r.type = "error" THEN "error" ELSE "done", r.type)>>)

\* no catch block: the exception leaves the function
CatchNothing(stage) ==
  /\ thrownBy' = stage
  /\ propagated' = TRUE
  /\ pc' = "done"
  /\ UNCHANGED <<response, sse>>

\* the catch block of processQuery / processQueryStreaming
CatchAll(stage) ==
  /\ thrownBy' = stage
  /\ propagated' = FALSE
  /\ Finish(ErrorResponse("ORCHESTRATOR"), <<>>)

\* LAYER 3+4 is entered: the first generation call is made
EnterGeneration(before, events, search) ==
  /\ webSearchResult' = search
  /\ attempt' = 0
  /\ response' = response
  /\ sse' = Sent(events \o <<Event("progress", "generating")>>)
  /\ IF mode = "processQuery"
     THEN /\ calls' = calls \o before \o <<"generateRecommendation">>
          /\ pc' = "generateRecommendation"
          /\ fedBack' = Append(fedBack, [output |-> NoData, errors |-> <<>>])
     ELSE /\ calls' = calls \o before \o <<"generateStreamingRecommendation">>
          /\ pc' = "generateStreamingRecommendation"
          /\ fedBack' = fedBack

Start(m, context) ==
  /\ mode = "idle"
  /\ mode' = m
  /\ userContext' = context
  /\ calls' = <<"classifyQuery">>
  /\ pc' = "classifyQuery"
  /\ sse' = IF m = "processQueryStreaming"
            THEN <<Event("progress", "classification")>> ELSE <<>>
  /\ UNCHANGED <<classification, classifierCompletion, webSearchResult, attempt, lastOutput, lastErrors,
                 repairResult, fedBack, outcomes, thrownBy, response, propagated,
                 validatorVars, cacheVars, chatVars, twinVars, connVars, extractVars, storeVars>>

\* classifyQuery returns; the orchestrator runs to its next await
ClassifyQueryReturns(completion) ==
  /\ pc = "classifyQuery"
  /\ LET c == classifyQuery(completion)
         contextValidation == validateUserContext(userContext)
         classified == <<Event("classification", "")>>
     IN
     /\ classification' = c
     /\ classifierCompletion' = completion
     /\ IF Rejects(c)
        THEN IF mode = "processQuery"
             THEN /\ Finish(RejectionResponse, <<>>)
                  /\ UNCHANGED <<calls, webSearchResult, attempt, fedBack, extractVars, storeVars>>
             ELSE /\ pc' = "rejectionTokens"
                  /\ sse' = Sent(classified \o <<Event("token", "")>>)
                  /\ UNCHANGED <<calls, webSearchResult, attempt, fedBack, response, extractVars, storeVars>>
        ELSE IF ~contextValidation.valid
        THEN /\ calls' = calls \o <<"validateUserContext">>
             /\ Finish(ErrorResponse("LAYER-1:CONTEXT"),
                       classified \o <<Event("progress", "context")>>)
             /\ UNCHANGED <<webSearchResult, attempt, fedBack, extractVars, storeVars>>
        ELSE IF NeedsWebSearch(c)
        THEN /\ calls' = calls \o <<"validateUserContext", "performWebSearch">>
             /\ pc' = "performWebSearch"
             /\ sse' = Sent(classified \o <<Event("progress", "context"),
                                            Event("progress", "web_search")>>)
             /\ UNCHANGED <<webSearchResult, attempt, fedBack, response, extractVars, storeVars>>
        ELSE EnterGeneration(<<"validateUserContext">>,
                             classified \o <<Event("progress", "context"),
                                             Event("progress", "web_search_skip")>>,
                             Undefined)
  /\ UNCHANGED <<mode, userContext, lastOutput, lastErrors, repairResult, outcomes,
                 thrownBy, propagated, validatorVars, cacheVars, chatVars, twinVars, connVars, extractVars, storeVars>>

\* processQueryStreaming streams the rejection message word by word: the
\* 20 ms timer ends and the next word is sent
RejectionToken ==
  /\ pc = "rejectionTokens"
  /\ Len(SelectSeq(sse, LAMBDA e : e.type = "token")) < MaxRejectionWords
  /\ sse' = Append(sse, Event("token", ""))
  /\ UNCHANGED <<mode, pc, userContext, classification, classifierCompletion, webSearchResult, calls, attempt,
                 lastOutput, lastErrors, repairResult, fedBack, outcomes, thrownBy,
                 response, propagated, validatorVars, cacheVars, chatVars, twinVars, connVars, extractVars, storeVars>>

\* the timer ends after the last word
RejectionDone ==
  /\ pc = "rejectionTokens"
  /\ Finish(RejectionResponse, <<>>)
  /\ UNCHANGED <<mode, userContext, classification, classifierCompletion, webSearchResult, calls, attempt,
                 lastOutput, lastErrors, repairResult, fedBack, outcomes, thrownBy,
                 propagated, validatorVars, cacheVars, chatVars, twinVars, connVars, extractVars, storeVars>>

\* inside performWebSearch, openai.responses.create of performOpenAIWebSearch
\* throws: its catch block calls the fallback chat completion
ResponsesCreateThrows ==
  /\ pc = "performWebSearch"
  /\ pc' = "fallbackCompletion"
  /\ calls' = Append(calls, "fallbackCompletion")
  /\ UNCHANGED <<mode, userContext, classification, classifierCompletion, webSearchResult,
                 attempt, lastOutput, lastErrors, repairResult, fedBack, outcomes,
                 thrownBy, response, propagated, sse, validatorVars, cacheVars, chatVars, twinVars, connVars, extractVars, storeVars>>

\* performWebSearch returns, after the search or after the fallback completion
PerformWebSearchReturns(result) ==
  /\ pc \in {"performWebSearch", "fallbackCompletion"}
  /\ EnterGeneration(<<>>, <<Event("web_search", "")>>, Some(result))
  /\ UNCHANGED <<mode, userContext, classification, classifierCompletion, lastOutput, lastErrors, repairResult,
                 outcomes, thrownBy, propagated, validatorVars, cacheVars, chatVars, twinVars, connVars, extractVars, storeVars>>

\* performWebSearch rejects: the fallback completion of performOpenAIWebSearch threw
PerformWebSearchThrows ==
  /\ pc = "fallbackCompletion"
  /\ CatchAll("performWebSearch")
  /\ UNCHANGED <<mode, userContext, classification, classifierCompletion, webSearchResult, calls, attempt,
                 lastOutput, lastErrors, repairResult, fedBack, outcomes, validatorVars, cacheVars, chatVars, twinVars, connVars, extractVars, storeVars>>

\* a loop that appends the errors of an attempt to those of the attempts before
NextAttemptAccumulates(output, errors, made) ==
  /\ attempt' = attempt + 1
  /\ lastOutput' = output
  /\ lastErrors' = lastErrors \o errors
  /\ IF LoopContinues(attempt + 1)
     THEN /\ calls' = calls \o made \o <<"retryRecommendation">>
          /\ fedBack' = Append(fedBack, [output |-> output, errors |-> lastErrors \o errors])
          /\ pc' = "retryRecommendation"
          /\ UNCHANGED <<repairResult, response, sse, extractVars, storeVars>>
     ELSE /\ calls' = calls \o made
          /\ fedBack' = fedBack
          /\ repairResult' = [success |-> FALSE, attempts |-> MAX_REPAIR_ATTEMPTS + 1,
                              errors |-> lastErrors \o errors, data |-> NoData]
          /\ Finish(ErrorResponse("LAYER-4:VALIDATOR"), <<>>)

\* the end of one iteration of the repair loop that did not return: attempt++,
\* then the next generation call, or the failure result after the loop
NextAttempt(output, errors, made) ==
  /\ attempt' = attempt + 1
  /\ lastOutput' = output
  /\ lastErrors' = errors
  /\ IF LoopContinues(attempt + 1)
     THEN /\ calls' = calls \o made \o <<"retryRecommendation">>
          /\ fedBack' = Append(fedBack, [output |-> output, errors |-> errors])
          /\ pc' = "retryRecommendation"
          /\ UNCHANGED <<repairResult, response, sse, extractVars, storeVars>>
     ELSE /\ calls' = calls \o made
          /\ fedBack' = fedBack
          /\ repairResult' = [success |-> FALSE, attempts |-> MAX_REPAIR_ATTEMPTS + 1,
                              errors |-> errors, data |-> NoData]
          /\ Finish(ErrorResponse("LAYER-4:VALIDATOR"), <<>>)

\* generateRecommendation / retryRecommendation returns its parsed output
GenerationReturns(candidate) ==
  /\ pc \in {"generateRecommendation", "retryRecommendation"}
  /\ LET validation == validateRecommendation(candidate, userContext,
                                              classification.needs_recommendations)
     IN IF validation.valid
        THEN /\ outcomes' = Append(outcomes, "accepted")
             /\ lastOutput' = candidate
             /\ calls' = Append(calls, "validateRecommendation")
             /\ repairResult' = [success |-> TRUE, attempts |-> SuccessAttempts(attempt),
                                 errors |-> <<>>, data |-> validation.data]
             /\ Finish(SuccessResponse(validation.data, SuccessAttempts(attempt),
                                       webSearchResult), <<>>)
             /\ UNCHANGED <<attempt, lastErrors, fedBack, extractVars, storeVars>>
        ELSE /\ outcomes' = Append(outcomes, "rejected")
             /\ NextAttempt(candidate, validation.errors, <<"validateRecommendation">>)
  /\ UNCHANGED <<mode, userContext, classification, classifierCompletion, webSearchResult, thrownBy,
                 propagated, validatorVars, cacheVars, chatVars, twinVars, connVars, extractVars, storeVars>>

\* a loop without a catch block: the exception reaches the orchestrator
GenerationThrowsOut ==
  /\ pc \in {"generateRecommendation", "retryRecommendation"}
  /\ outcomes' = Append(outcomes, "threw")
  /\ CatchAll("generateRecommendation")
  /\ UNCHANGED <<mode, userContext, classification, classifierCompletion, webSearchResult,
                 calls, attempt, lastOutput, lastErrors, repairResult, fedBack,
                 validatorVars, cacheVars, chatVars, twinVars, connVars, extractVars, storeVars>>

\* the generation call throws (the completion call failed, the content was
\* empty, JSON.parse failed): the catch block inside the loop
GenerationThrows ==
  /\ pc \in {"generateRecommendation", "retryRecommendation"}
  /\ outcomes' = Append(outcomes, "threw")
  /\ NextAttempt(lastOutput, Thrown, <<>>)
  /\ UNCHANGED <<mode, userContext, classification, classifierCompletion, webSearchResult, thrownBy,
                 propagated, validatorVars, cacheVars, chatVars, twinVars, connVars, extractVars, storeVars>>

\* generateStreamingRecommendation passes new narrative text to onToken
StreamingToken ==
  /\ pc = "generateStreamingRecommendation"
  /\ Len(SelectSeq(sse, LAMBDA e : e.type = "token")) < MaxTokens
  /\ sse' = Append(sse, Event("token", ""))
  /\ UNCHANGED <<mode, pc, userContext, classification, classifierCompletion, webSearchResult, calls, attempt,
                 lastOutput, lastErrors, repairResult, fedBack, outcomes, thrownBy,
                 response, propagated, validatorVars, cacheVars, chatVars, twinVars, connVars, extractVars, storeVars>>

\* a streaming orchestrator that reports what was streamed without validating it
GenerateStreamingReturnsUnvalidated(candidate) ==
  /\ pc = "generateStreamingRecommendation"
  /\ lastOutput' = candidate
  /\ calls' = calls
  /\ Finish(SuccessResponse(candidate, 1, webSearchResult), <<>>)
  /\ UNCHANGED <<mode, userContext, classification, classifierCompletion, webSearchResult, attempt,
                 lastErrors, repairResult, fedBack, outcomes, thrownBy, propagated,
                 validatorVars, cacheVars, chatVars, twinVars, connVars, extractVars, storeVars>>

\* generateStreamingRecommendation returns recommendationResult (kept in
\* lastOutput); processQueryStreaming validates recommendationResult.parsed
GenerateStreamingReturns(candidate) ==
  /\ pc = "generateStreamingRecommendation"
  /\ lastOutput' = candidate
  /\ LET validation == validateRecommendation(candidate, userContext,
                                              classification.needs_recommendations)
     IN /\ calls' = Append(calls, "validateRecommendation")
        /\ IF validation.valid
           THEN Finish(SuccessResponse(validation.data, 1, webSearchResult), <<>>)
           ELSE Finish(ErrorResponse("LAYER-4:VALIDATOR"), <<>>)
  /\ UNCHANGED <<mode, userContext, classification, classifierCompletion, webSearchResult, attempt,
                 lastErrors, repairResult, fedBack, outcomes, thrownBy, propagated,
                 validatorVars, cacheVars, chatVars, twinVars, connVars, extractVars, storeVars>>

\* generateStreamingRecommendation throws (the stream failed, JSON.parse failed)
GenerateStreamingThrows ==
  /\ pc = "generateStreamingRecommendation"
  /\ CatchAll("generateStreamingRecommendation")
  /\ UNCHANGED <<mode, userContext, classification, classifierCompletion, webSearchResult, calls, attempt,
                 lastOutput, lastErrors, repairResult, fedBack, outcomes, validatorVars, cacheVars, chatVars, twinVars, connVars, extractVars, storeVars>>

Init ==
  /\ TwinParked
  /\ ExtractParked
  /\ StoreParked
  /\ PipelineParked
  /\ ValidatorParked
  /\ CacheParked
  /\ ChatParked

Next ==
  \/ \E m \in {"processQuery", "processQueryStreaming"}, context \in RequestContexts :
       Start(m, context)
  \/ \E completion \in ClassifierCompletions : ClassifyQueryReturns(completion)
  \/ RejectionToken
  \/ RejectionDone
  \/ \E result \in WebSearchResults : PerformWebSearchReturns(result)
  \/ ResponsesCreateThrows
  \/ PerformWebSearchThrows
  \/ \E candidate \in GeneratorOutputs : GenerationReturns(candidate)
  \/ GenerationThrows
  \/ StreamingToken
  \/ \E candidate \in GeneratorOutputs : GenerateStreamingReturns(candidate)
  \/ GenerateStreamingThrows

Spec == Init /\ [][Next]_vars

----------------------------------------------------------------------------
(* SpecTwin: processQuery and processQueryStreaming called with the same
   query and user context, whose collaborators give the same answers *)

\* what a generation call does: it returns a parsed output or it throws
TwinOutputs ==
  {[kind |-> "returns", parsed |-> Candidate(AllKeys, <<CleanRec("BUY", 1)>>)],
   [kind |-> "returns", parsed |-> Candidate(AllKeys, <<CleanRec("BUY", MaxMoney + 1)>>)],
   [kind |-> "throws", parsed |-> NoData]}

\* the answers given to one request: the classification completion, whether
\* performWebSearch returns or rejects, and generation call n's answer
TwinInputs ==
  [completion : ClassifierCompletions,
   context : RequestContexts,
   search : {"returns", "throws"},
   outputs : [1..(MAX_REPAIR_ATTEMPTS + 1) -> TwinOutputs]]

\* the loop of generateValidatedRecommendation from iteration a on: TRUE when
\* an iteration returns success, FALSE when the loop ends without one
RECURSIVE generateValidatedRecommendation(_, _, _, _)
generateValidatedRecommendation(outputs, context, needs, a) ==
  IF ~LoopContinues(a) THEN FALSE
  ELSE IF /\ outputs[a + 1].kind = "returns"
          /\ validateRecommendation(outputs[a + 1].parsed, context, needs).valid
       THEN TRUE
       ELSE generateValidatedRecommendation(outputs, context, needs, a + 1)

\* the type of the response processQuery returns
processQueryType(i) ==
  LET c == classifyQuery(i.completion)
  IN IF Rejects(c) THEN "rejection"
     ELSE IF ~validateUserContext(i.context).valid THEN "error"
     ELSE IF NeedsWebSearch(c) /\ i.search = "throws" THEN "error"
     ELSE IF generateValidatedRecommendation(i.outputs, i.context,
                                             c.needs_recommendations, 0)
          THEN "success"
          ELSE "error"

\* the type of the response processQueryStreaming sends in its done or error
\* event: one generation call, validated once
processQueryStreamingType(i) ==
  LET c == classifyQuery(i.completion)
  IN IF Rejects(c) THEN "rejection"
     ELSE IF ~validateUserContext(i.context).valid THEN "error"
     ELSE IF NeedsWebSearch(c) /\ i.search = "throws" THEN "error"
     ELSE IF i.outputs[1].kind = "throws" THEN "error"
     ELSE IF validateRecommendation(i.outputs[1].parsed, i.context,
                                    c.needs_recommendations).valid
          THEN "success"
          ELSE "error"

processQuery ==
  /\ twinSync = ""
  /\ twinSync' = processQueryType(twinInputs)
  /\ UNCHANGED <<twinInputs, twinStream, validatorVars, pipelineVars, cacheVars,
                 chatVars, connVars, extractVars, storeVars>>

processQueryStreaming ==
  /\ twinStream = ""
  /\ twinStream' = processQueryStreamingType(twinInputs)
  /\ UNCHANGED <<twinInputs, twinSync, validatorVars, pipelineVars, cacheVars,
                 chatVars, connVars, extractVars, storeVars>>

InitTwin ==
  /\ ExtractParked
  /\ StoreParked
  /\ twinInputs \in TwinInputs
  /\ twinSync = ""
  /\ twinStream = ""
  /\ ValidatorParked
  /\ PipelineParked
  /\ CacheParked
  /\ ChatParked

NextTwin ==
  \/ processQuery
  \/ processQueryStreaming

SpecTwin == InitTwin /\ [][NextTwin]_vars

\* C14 as stated (streaming and non-streaming equivalence): with the same
\* classification, user context, search result and generator answers,
\* processQueryStreaming ends with a response of the same type (rejection,
\* error or success) as processQuery.
C14_SameOutcomeType ==
  (twinSync # "" /\ twinStream # "") => twinSync = twinStream

----------------------------------------------------------------------------
(* Properties of the pipeline (Spec) *)

Count(name) == Len(SelectSeq(calls, LAMBDA c : c = name))

GenerationCalls ==
  Count("generateRecommendation") + Count("retryRecommendation")
    + Count("generateStreamingRecommendation")

\* the index of the first call of that name in the call log, 0 if there is none
FirstCall(name) ==
  IF Count(name) = 0 THEN 0
  ELSE CHOOSE i \in 1..Len(calls) :
         calls[i] = name /\ \A j \in 1..(i - 1) : calls[j] # name

\* classifyQuery has returned
Classified == pc \notin {"idle", "classifyQuery"}

\* the profile breaks a constraint of the schema, stated on the fields
ProfileInvalid ==
  \/ userContext.monthly_income <= 0
  \/ userContext.monthly_expenses <= 0
  \/ userContext.bank_balance < 0
  \/ userContext.risk_profile \notin {"low", "moderate", "high"}

\* C1 (gate precedence): once the classifier has answered that the query is not
\* in the domain, the only stage that was ever called is the classifier: there
\* is no context validation, no web search, no generation and no validator
\* call, and the request can only end in a rejection.  Both in processQuery
\* and in processQueryStreaming.
C1_GatePrecedence ==
  (Classified /\ ~classification.is_indian_finance) =>
    /\ calls = <<"classifyQuery">>
    /\ webSearchResult = Undefined
    /\ fedBack = <<>> /\ outcomes = <<>>
    /\ pc \in {"rejectionTokens", "done"}
    /\ (pc = "done" => response = RejectionResponse)

C1_Witness ==
  /\ mode = "processQueryStreaming"
  /\ pc = "done"
  /\ ~classification.is_indian_finance
  /\ response.type = "rejection"
  /\ calls = <<"classifyQuery">>

\* C9 (precondition gate): an in-domain request whose profile fails the context
\* validation ends in an error at the context stage; the context validation is
\* called once and neither the web search nor a generation call is made.
C9_PreconditionGate ==
  (Classified /\ classification.is_indian_finance /\ ProfileInvalid) =>
    /\ pc = "done"
    /\ response = ErrorResponse("LAYER-1:CONTEXT")
    /\ calls = <<"classifyQuery", "validateUserContext">>
    /\ webSearchResult = Undefined
    /\ fedBack = <<>> /\ outcomes = <<>>

C9_Witness ==
  /\ pc = "done"
  /\ classification.is_indian_finance
  /\ userContext.monthly_income = -1
  /\ response.type = "error"
  /\ response.layer = "LAYER-1:CONTEXT"

C10_WitnessSkipped ==
  /\ pc = "done"
  /\ response.type = "success"
  /\ classification.needs_web_search # Some(TRUE)
  /\ Count("performWebSearch") = 0


\* the generation calls of the repair loop
LoopCalls == Count("generateRecommendation") + Count("retryRecommendation")

\* C2 (repair success): when the candidate of generation call k is the first
\* one the validator accepts, the repair loop has made exactly k generation
\* calls, it returns success with attempts = k and the accepted candidate, and
\* no generation call follows the accepted one.
C2_RepairSuccess ==
  \A k \in 1..Len(outcomes) :
    outcomes[k] = "accepted" =>
      /\ k = Len(outcomes)
      /\ LoopCalls = k
      /\ pc = "done"
      /\ repairResult.success
      /\ repairResult.attempts = k
      /\ repairResult.data = lastOutput
      /\ response = SuccessResponse(lastOutput, k, webSearchResult)

\* accepted at the last attempt the loop allows, after a rejection
C2_Witness ==
  /\ Len(outcomes) = MAX_REPAIR_ATTEMPTS + 1
  /\ outcomes[1] = "rejected"
  /\ outcomes[MAX_REPAIR_ATTEMPTS + 1] = "accepted"
  /\ repairResult.success
  /\ repairResult.attempts = MAX_REPAIR_ATTEMPTS + 1

\* C3 (repair boundedness): the repair loop never makes more than
\* MAX_REPAIR_ATTEMPTS + 1 = 3 generation calls, and when no candidate is
\* accepted it ends after exactly 3 calls with success = false, attempts = 3
\* and the errors of the last attempt.
C3_RepairBounded ==
  /\ LoopCalls <= MAX_REPAIR_ATTEMPTS + 1
  /\ Len(outcomes) <= LoopCalls
  /\ (pc = "done" /\ Len(outcomes) > 0 /\ \A k \in 1..Len(outcomes) : outcomes[k] # "accepted") =>
       /\ LoopCalls = 3
       /\ Len(outcomes) = 3
       /\ ~repairResult.success
       /\ repairResult.attempts = 3
       /\ repairResult.errors = lastErrors
       /\ response = ErrorResponse("LAYER-4:VALIDATOR")

C3_Witness ==
  /\ pc = "done"
  /\ outcomes = <<"rejected", "rejected", "rejected">>
  /\ LoopCalls = 3
  /\ ~repairResult.success

\* the name under which the code logs the failures of a stage
StageLayer(stage) ==
  IF stage = "performWebSearch" THEN "LAYER-2:WEB_SEARCH"
  ELSE IF stage = "generateStreamingRecommendation" THEN "LAYER-3:STREAMING_RECOMMENDER"
  ELSE "none"

\* C8 as stated (exception containment): an exception thrown by a stage never
\* leaves processQuery / processQueryStreaming; the request ends in an error
\* outcome whose layer field names the stage that failed.
C8_StageNamed ==
  /\ ~propagated
  /\ thrownBy # "" =>
       /\ pc = "done"
       /\ response.type = "error"
       /\ response.layer = StageLayer(thrownBy)

\* C8 (exception containment), as the code has it: an exception that reaches the
\* orchestrator (from the web search in either path, from the generation in the
\* streaming path) never leaves the function; the request ends in an error
\* outcome whose layer field is the fixed value ORCHESTRATOR, whatever stage
\* failed.  An exception of a generation call inside the repair loop does not
\* reach the orchestrator: the loop counts it as a failed attempt.
C8_Contained ==
  /\ ~propagated
  /\ thrownBy # "" =>
       /\ pc = "done"
       /\ response = ErrorResponse("ORCHESTRATOR")
       /\ (mode = "processQueryStreaming" => sse[Len(sse)] = Event("error", "error"))
  /\ \A k \in 1..Len(outcomes) : outcomes[k] = "threw" => thrownBy = ""

C8_Witness ==
  /\ thrownBy = "performWebSearch"
  /\ mode = "processQueryStreaming"
  /\ pc = "done"
  /\ response.layer = "ORCHESTRATOR"

\* a generation call threw inside the repair loop and the request succeeded
C8_WitnessAbsorbed ==
  /\ pc = "done"
  /\ outcomes = <<"threw", "accepted">>
  /\ response.type = "success"

----------------------------------------------------------------------------
(* Properties of the validator (SpecValidator) *)

\* the sum of the amounts of the items of one action, written out on the artifact
SumOf(recs, action) ==
  LET idx == {i \in 1..Len(recs) : recs[i].action = action}
      RECURSIVE Sum(_)
      Sum(S) == IF S = {} THEN 0
                ELSE LET i == CHOOSE x \in S : TRUE IN recs[i].amount + Sum(S \ {i})
  IN Sum(idx)

\* the validator accepted the artifact and was asked for a structured answer
AcceptedStructured ==
  /\ vResult.valid
  /\ vNeeds # Some(FALSE)

Surplus == vContext.monthly_income - vContext.monthly_expenses

TradeAmountsPositive ==
  \A i \in 1..Len(vResult.data.recommendations) :
    vResult.data.recommendations[i].action \in {"BUY", "SELL"} =>
      vResult.data.recommendations[i].amount > 0

\* C4 as stated (net-money invariant): every artifact the validator accepts
\* with needsRecommendations = true has sum(BUY) - sum(SELL) <= monthly surplus
\* and only strictly positive BUY and SELL amounts.
C4_NetMoneyAlways ==
  AcceptedStructured =>
    /\ SumOf(vResult.data.recommendations, "BUY")
         - SumOf(vResult.data.recommendations, "SELL") <= Surplus
    /\ TradeAmountsPositive

\* C4 (net-money invariant), as the code has it: every artifact the validator
\* accepts with needsRecommendations = true and at least one recommendation has
\* sum(BUY) - sum(SELL) <= monthly surplus, and every BUY and SELL amount of an
\* accepted artifact is strictly positive.  An artifact with no recommendation
\* is accepted whatever the surplus is, a negative one included.
C4_NetMoney ==
  AcceptedStructured =>
    /\ Len(vResult.data.recommendations) > 0 =>
         SumOf(vResult.data.recommendations, "BUY")
           - SumOf(vResult.data.recommendations, "SELL") <= Surplus
    /\ TradeAmountsPositive

\* selling funds the buying: the gross BUY exceeds the surplus, the net does not
C4_Witness ==
  /\ AcceptedStructured
  /\ SumOf(vResult.data.recommendations, "SELL") > 0
  /\ SumOf(vResult.data.recommendations, "BUY") > Surplus
  /\ SumOf(vResult.data.recommendations, "BUY")
       - SumOf(vResult.data.recommendations, "SELL") <= Surplus

\* C5 (execution disabled): in every artifact the validator accepts, whatever
\* needsRecommendations is, every recommendation item has execution.enabled
\* = false.
C5_ExecutionDisabled ==
  vResult.valid =>
    \A i \in 1..Len(vResult.data.recommendations) :
      vResult.data.recommendations[i].execution.enabled = FALSE

\* accepted with the business rules skipped: only the schema stands guard
C5_Witness ==
  /\ vResult.valid
  /\ vNeeds = Some(FALSE)
  /\ Len(vResult.data.recommendations) = 2
  /\ \A i \in 1..2 : vResult.data.recommendations[i].execution.enabled = FALSE

----------------------------------------------------------------------------
(* layers/webSearch.ts: SpecCache, performWebSearch calls that share
   searchCache; one step per await of a call, the clock moves between steps *)

CACHE_TTL_MS == 30 * 60 * 1000

\* the number of performWebSearch calls made
MaxCalls == 3
\* the clock moves in steps of fifteen minutes, MaxTicks times
TickMs == 900000
MaxTicks == 2

\* String.prototype.trim
trim(str) ==
  LET kept == {i \in 1..Len(str) : ~IsWhitespace(str[i])}
  IN IF kept = {} THEN <<>>
     ELSE SubSeq(str, CHOOSE i \in kept : \A j \in kept : i <= j,
                      CHOOSE i \in kept : \A j \in kept : i >= j)

\* const cacheKey = query.toLowerCase().trim()
CacheKey(query) == trim(toLowerCase(query))

Queries ==
  {<<"N","i","f","t","y">>, <<" ","n","i","f","t","y"," ">>, <<"E","L","S","S">>}

\* searchCache.get(cacheKey), then: cached && Date.now() - cached.timestamp < CACHE_TTL_MS
CacheHit(cacheKey) ==
  /\ cacheKey \in DOMAIN searchCache
  /\ now - searchCache[cacheKey].timestamp < CACHE_TTL_MS

\* searchCache.set(cacheKey, entry)
MapSet(map, key, entry) ==
  [k \in DOMAIN map \cup {key} |-> IF k = key THEN entry ELSE map[k]]

Ended(call, result, hit, threw) ==
  [id |-> call.id, key |-> call.key, startedAt |-> call.startedAt, seen |-> call.seen,
   hit |-> hit, threw |-> threw, result |-> result]

\* a cache whose hits renew the entry's timestamp
performWebSearchRenews(query) ==
  /\ nextCall <= MaxCalls
  /\ nextCall' = nextCall + 1
  /\ LET cacheKey == CacheKey(query)
         call == [id |-> nextCall, key |-> cacheKey, startedAt |-> now,
                  seen |-> Len(stores)]
     IN IF CacheHit(cacheKey)
        THEN /\ returned' = Append(returned,
                              Ended(call, searchCache[cacheKey].result, TRUE, FALSE))
             /\ pending' = pending
             /\ searchCache' = [searchCache EXCEPT ![cacheKey].timestamp = now]
        ELSE /\ pending' = pending \cup {call}
             /\ returned' = returned
             /\ searchCache' = searchCache
  /\ UNCHANGED <<now, stores, validatorVars, pipelineVars, chatVars, twinVars,
                 connVars, extractVars, storeVars>>

\* performWebSearch is called: the cache check, up to the return of a hit or
\* the first await of a miss
performWebSearch(query) ==
  /\ nextCall <= MaxCalls
  /\ nextCall' = nextCall + 1
  /\ LET cacheKey == CacheKey(query)
         call == [id |-> nextCall, key |-> cacheKey, startedAt |-> now,
                  seen |-> Len(stores)]
     IN IF CacheHit(cacheKey)
        THEN /\ returned' = Append(returned,
                              Ended(call, searchCache[cacheKey].result, TRUE, FALSE))
             /\ pending' = pending
        ELSE /\ pending' = pending \cup {call}
             /\ returned' = returned
  /\ UNCHANGED <<now, searchCache, stores, validatorVars, pipelineVars, chatVars, twinVars, connVars, extractVars, storeVars>>

\* the search and its fallback completion both fail: performWebSearch rejects
performOpenAIWebSearchThrows(call) ==
  /\ call \in pending
  /\ pending' = pending \ {call}
  /\ returned' = Append(returned, Ended(call, NoSearchResult, FALSE, TRUE))
  /\ UNCHANGED <<now, searchCache, stores, nextCall,
                 validatorVars, pipelineVars, chatVars, twinVars, connVars, extractVars, storeVars>>

\* a miss that checks the cache again before it stores, and keeps and returns
\* an entry that is still fresh
extractFundDataReturnsChecksAgain(call, content, funds) ==
  /\ call \in pending
  /\ content = "" => funds = 0
  /\ LET result == [funds |-> funds, search_timestamp |-> now]
     IN IF CacheHit(call.key)
        THEN /\ returned' = Append(returned,
                              Ended(call, searchCache[call.key].result, FALSE, FALSE))
             /\ UNCHANGED <<searchCache, stores>>
        ELSE /\ searchCache' = MapSet(searchCache, call.key,
                                      [result |-> result, timestamp |-> now])
             /\ stores' = Append(stores, [id |-> call.id, key |-> call.key,
                                          result |-> result, timestamp |-> now])
             /\ returned' = Append(returned, Ended(call, result, FALSE, FALSE))
  /\ pending' = pending \ {call}
  /\ UNCHANGED <<now, nextCall, validatorVars, pipelineVars, chatVars, twinVars,
                 connVars, extractVars, storeVars>>

\* performOpenAIWebSearch returns the content (of the search or of the fallback
\* completion), which may be empty, and extractFundData returns its funds ([]
\* for empty content or a failed extraction); the result is built, stored and
\* returned.  The two awaits are one step: nothing shared is read or written
\* between them.
extractFundDataReturns(call, content, funds) ==
  /\ call \in pending
  /\ content = "" => funds = 0
  /\ LET result == [funds |-> funds, search_timestamp |-> now]
     IN /\ searchCache' = MapSet(searchCache, call.key,
                                 [result |-> result, timestamp |-> now])
        /\ stores' = Append(stores, [id |-> call.id, key |-> call.key,
                                     result |-> result, timestamp |-> now])
        /\ returned' = Append(returned, Ended(call, result, FALSE, FALSE))
  /\ pending' = pending \ {call}
  /\ UNCHANGED <<now, nextCall, validatorVars, pipelineVars, chatVars, twinVars, connVars, extractVars, storeVars>>

\* time passes
Tick ==
  /\ now < MaxTicks * TickMs
  /\ now' = now + TickMs
  /\ UNCHANGED <<searchCache, pending, returned, stores, nextCall,
                 validatorVars, pipelineVars, chatVars, twinVars, connVars, extractVars, storeVars>>

InitCache ==
  /\ TwinParked
  /\ ExtractParked
  /\ StoreParked
  /\ CacheParked
  /\ ValidatorParked
  /\ PipelineParked
  /\ ChatParked

NextCache ==
  \/ \E query \in Queries : performWebSearch(query)
  \/ \E call \in pending : performOpenAIWebSearchThrows(call)
  \/ \E call \in pending, content \in {"", "text"}, funds \in {0, 1} :
       extractFundDataReturns(call, content, funds)
  \/ Tick

SpecCache == InitCache /\ [][NextCache]_vars

\* the first searchCache.set made for the key (0 if there is none)
FirstStore(key) ==
  IF \A i \in 1..Len(stores) : stores[i].key # key THEN 0
  ELSE CHOOSE i \in 1..Len(stores) :
         stores[i].key = key /\ \A j \in 1..(i - 1) : stores[j].key # key

\* the call produced the first stored result of its key, or it began after that
\* result was stored and less than the TTL after it
InFirstWindow(call) ==
  LET f == FirstStore(call.key)
  IN /\ f > 0
     /\ ~call.threw
     /\ \/ call.id = stores[f].id
        \/ /\ call.seen >= f
           /\ call.startedAt - stores[f].timestamp < CACHE_TTL_MS

\* C6 as stated (cache idempotence): two performWebSearch calls with the same
\* normalized key that both fall in the TTL window of the first stored result
\* return the identical result, and at most one of the two made a retrieval.
C6_CacheIdempotence ==
  \A i, j \in 1..Len(returned) :
    (/\ i # j
     /\ returned[i].key = returned[j].key
     /\ InFirstWindow(returned[i])
     /\ InFirstWindow(returned[j])) =>
       /\ returned[i].result = returned[j].result
       /\ returned[i].hit \/ returned[j].hit

----------------------------------------------------------------------------
(* services/chat.service.ts, lib/stream.lib.ts, utils/event.util.ts: SpecChat,
   one request through processChatStreaming; one step per await, the keepalive
   timer fires between steps *)

\* the keepalive events of one stream
MaxKeepalives == 3
\* the text deltas of one stream
MaxDeltas == 3

\* new StreamContextManager(messageId)
StreamContextManager == [sequence |-> 0, blockId |-> 0]

\* nextSequence(): return ++this.sequence
nextSequence(c) == [c EXCEPT !.sequence = c.sequence + 1]

\* an event built by a create...Event function of event.util.ts with the
\* context as nextSequence() left it
StreamEvent(type, c) == [type |-> type, sequence |-> c.sequence, blockId |-> c.blockId]

CountEvents(type) == Len(SelectSeq(resEvents, LAMBDA e : e.type = type))

\* the call, up to the await of createStreamingCompletion
processChatStreaming ==
  /\ chatPc = "idle"
  /\ messages' = Append(messages, "user")
  /\ LET c0 == StreamContextManager
         c1 == nextSequence(c0)
         c2 == nextSequence([c1 EXCEPT !.blockId = 1])
     IN /\ resEvents' = <<StreamEvent("message.started", c1),
                          StreamEvent("text.block.started", c2)>>
        /\ ctx' = c2
  /\ keepaliveInterval' = TRUE
  /\ chatPc' = "createStreamingCompletion"
  /\ UNCHANGED <<resEnded, validatorVars, pipelineVars, cacheVars, twinVars, connVars, extractVars, storeVars>>

\* the call for a new conversation whose title, the first 50 characters of the
\* first line of the message, holds a character that is not allowed in a
\* header value (above U+00FF such as the rupee sign, or a carriage return):
\* res.setHeader('X-Conversation-Title', ...) throws before the context and the
\* keepalive timer are created; the outer catch and the outer finally
setHeaderThrows ==
  /\ chatPc = "idle"
  /\ messages' = Append(messages, "user")
  /\ LET f0 == StreamContextManager
         f1 == nextSequence(f0)
         f2 == nextSequence(f1)
     IN resEvents' = <<StreamEvent("message.failed", f1),
                       StreamEvent("stream.end", f2)>>
  /\ resEnded' = TRUE
  /\ resEndCalls' = resEndCalls + 1
  /\ chatPc' = "done"
  /\ UNCHANGED <<ctx, keepaliveInterval, abortedAt, validatorVars, pipelineVars,
                 cacheVars, twinVars, extractVars, storeVars>>

\* the callback of createKeepalive's setInterval
KeepaliveFires ==
  /\ keepaliveInterval
  /\ CountEvents("stream.keepalive") < MaxKeepalives
  /\ LET c1 == nextSequence(ctx)
     IN /\ resEvents' = Append(resEvents, [StreamEvent("stream.keepalive", c1)
                                             EXCEPT !.blockId = 0])
        /\ ctx' = c1
  /\ UNCHANGED <<chatPc, keepaliveInterval, resEnded, messages,
                 validatorVars, pipelineVars, cacheVars, twinVars, connVars, extractVars, storeVars>>

\* a failure path that ends the response without writing any event
ChatFailsSilently ==
  /\ keepaliveInterval' = FALSE
  /\ resEvents' = resEvents
  /\ resEnded' = TRUE
  /\ resEndCalls' = resEndCalls + 1
  /\ chatPc' = "done"
  /\ UNCHANGED <<ctx, messages, abortedAt, validatorVars, pipelineVars, cacheVars, twinVars, extractVars, storeVars>>

\* a failure path without the finally of the inner try
ChatFailsKeepsTimer ==
  /\ keepaliveInterval' = keepaliveInterval
  /\ LET f0 == StreamContextManager
         f1 == nextSequence(f0)
         f2 == nextSequence(f1)
     IN resEvents' = resEvents \o <<StreamEvent("message.failed", f1),
                                    StreamEvent("stream.end", f2)>>
  /\ resEnded' = TRUE
  /\ resEndCalls' = resEndCalls + 1
  /\ chatPc' = "done"
  /\ UNCHANGED <<ctx, messages, abortedAt, validatorVars, pipelineVars, cacheVars, twinVars, extractVars, storeVars>>

\* the finally of the inner try, the outer catch and the outer finally
ChatFails ==
  /\ keepaliveInterval' = FALSE
  /\ LET f0 == StreamContextManager
         f1 == nextSequence(f0)
         f2 == nextSequence(f1)
     IN resEvents' = resEvents \o <<StreamEvent("message.failed", f1),
                                    StreamEvent("stream.end", f2)>>
  /\ resEnded' = TRUE
  /\ resEndCalls' = resEndCalls + 1
  /\ chatPc' = "done"
  /\ UNCHANGED <<ctx, messages, abortedAt, validatorVars, pipelineVars, cacheVars, twinVars, extractVars, storeVars>>

createStreamingCompletionReturns ==
  /\ chatPc = "createStreamingCompletion"
  /\ chatPc' = "stream"
  /\ UNCHANGED <<ctx, resEvents, keepaliveInterval, resEnded, messages,
                 validatorVars, pipelineVars, cacheVars, twinVars, connVars, extractVars, storeVars>>

createStreamingCompletionThrows ==
  /\ chatPc = "createStreamingCompletion"
  /\ ChatFails

\* a delta event that does not name its block
StreamChunkNoBlock ==
  /\ chatPc = "stream"
  /\ CountEvents("text.delta") < MaxDeltas
  /\ LET c1 == nextSequence(ctx)
     IN /\ resEvents' = Append(resEvents, [StreamEvent("text.delta", c1)
                                             EXCEPT !.blockId = 0])
        /\ ctx' = c1
  /\ UNCHANGED <<chatPc, keepaliveInterval, resEnded, messages,
                 validatorVars, pipelineVars, cacheVars, twinVars, connVars, extractVars, storeVars>>

\* for await: the next chunk, whose delta has content
StreamChunk ==
  /\ chatPc = "stream"
  /\ CountEvents("text.delta") < MaxDeltas
  /\ LET c1 == nextSequence(ctx)
     IN /\ resEvents' = Append(resEvents, StreamEvent("text.delta", c1))
        /\ ctx' = c1
  /\ UNCHANGED <<chatPc, keepaliveInterval, resEnded, messages,
                 validatorVars, pipelineVars, cacheVars, twinVars, connVars, extractVars, storeVars>>

\* for await: the stream fails
StreamThrows ==
  /\ chatPc = "stream"
  /\ ChatFails

\* for await: the stream is exhausted; the rest of the inner try, its finally
\* and the outer finally
StreamEnds ==
  /\ chatPc = "stream"
  /\ LET c1 == nextSequence(ctx)
         c2 == nextSequence([c1 EXCEPT !.blockId = 0])
         c3 == nextSequence(c2)
         c4 == nextSequence(c3)
     IN /\ resEvents' = resEvents \o
             <<[StreamEvent("text.block.completed", c1) EXCEPT !.blockId = ctx.blockId],
               StreamEvent("message.completed", c2),
               StreamEvent("conversation.info", c3),
               StreamEvent("stream.end", c4)>>
        /\ ctx' = c4
  /\ messages' = Append(messages, "assistant")
  /\ keepaliveInterval' = FALSE
  /\ resEnded' = TRUE
  /\ resEndCalls' = resEndCalls + 1
  /\ chatPc' = "done"
  /\ UNCHANGED <<abortedAt, validatorVars, pipelineVars, cacheVars, twinVars, extractVars, storeVars>>

\* the caller disconnects while the request is in flight: processChatStreaming
\* and its route handler register no listener for it, nothing else changes
CallerAborts ==
  /\ chatPc \in {"createStreamingCompletion", "stream"}
  /\ abortedAt = -1
  /\ abortedAt' = Len(resEvents)
  /\ UNCHANGED <<resEndCalls, validatorVars, pipelineVars, cacheVars, chatVars, twinVars, extractVars, storeVars>>

InitChat ==
  /\ TwinParked
  /\ ExtractParked
  /\ StoreParked
  /\ ChatParked
  /\ ValidatorParked
  /\ PipelineParked
  /\ CacheParked

NextChat ==
  \/ processChatStreaming
  \/ setHeaderThrows
  \/ KeepaliveFires
  \/ createStreamingCompletionReturns
  \/ createStreamingCompletionThrows
  \/ StreamChunk
  \/ StreamThrows
  \/ StreamEnds
  \/ CallerAborts

SpecChat == InitChat /\ [][NextChat]_vars

\* C7 as stated (sequence monotonicity): in every stream, the success and the
\* failure ones, with keepalive events interleaved, the sequence numbers of the
\* events written for the message are 1, 2, 3, ... in the order of writing.
C7_SequenceMonotonic ==
  \A i \in 1..Len(resEvents) : resEvents[i].sequence = i

----------------------------------------------------------------------------
(* Properties of the classifier and of failures inside the pipeline (Spec) *)

\* the completion call threw, returned no content, returned text that is not
\* JSON, or returned JSON that the schema rejects; stated on the completion
CompletionFailed ==
  \/ classifierCompletion.kind \in {"throws", "empty", "not_json"}
  \/ /\ classifierCompletion.kind = "json"
     /\ \/ classifierCompletion.is_indian_finance = Undefined
        \/ classifierCompletion.confidence < 0
        \/ classifierCompletion.confidence > 10
        \/ classifierCompletion.reason = Undefined

C12_ExceptionConsumesAttempt ==
  /\ LoopCalls <= MAX_REPAIR_ATTEMPTS + 1
  /\ \A n \in 1..Len(outcomes) :
       outcomes[n] = "threw" =>
         /\ ~propagated
         /\ thrownBy = ""
         /\ n < MAX_REPAIR_ATTEMPTS + 1 =>
              /\ LoopCalls >= n + 1
              /\ Len(fedBack[n + 1].errors) = 1
              /\ fedBack[n + 1].errors = Thrown
         /\ n = Len(outcomes) => Len(lastErrors) = 1
         /\ n = MAX_REPAIR_ATTEMPTS + 1 =>
              /\ pc = "done"
              /\ ~repairResult.success
              /\ Len(repairResult.errors) = 1

C12_Witness ==
  /\ pc = "done"
  /\ outcomes = <<"rejected", "threw", "accepted">>
  /\ LoopCalls = 3
  /\ fedBack[3].errors = Thrown
  /\ response.type = "success"

\* the search of performOpenAIWebSearch failed during this request
RetrievalFailed == Count("fallbackCompletion") > 0

\* C13 as stated (retrieval failure is absorbed): whenever the search fails
\* during grounding, performWebSearch still returns a result and the request
\* does not end in an error because of it.
C13_RetrievalAbsorbed ==
  RetrievalFailed =>
    /\ thrownBy # "performWebSearch"
    /\ ~(pc = "done" /\ response.type = "error" /\ LoopCalls = 0)

\* the SSE events of the given type and data that were written
Written(type, data) == SelectSeq(sse, LAMBDA e : e.type = type /\ e.data = data)

\* generateStreamingRecommendation returned and its output did not pass
\* validateRecommendation
StreamedOutputRejected ==
  /\ mode = "processQueryStreaming"
  /\ Count("generateStreamingRecommendation") = 1
  /\ pc = "done"
  /\ thrownBy = ""
  /\ ~validateRecommendation(lastOutput, userContext,
                             classification.needs_recommendations).valid

\* C15 (validation still applies after streaming): processQueryStreaming
\* writes a done event with a success response only when the output of
\* generateStreamingRecommendation passed validateRecommendation; when it did
\* not pass, whatever tokens were written, the stream ends with an error event
\* and no success is written.
C15_ValidatedAfterStreaming ==
  mode = "processQueryStreaming" =>
    /\ (Len(Written("done", "success")) > 0 \/ response.type = "success") =>
         /\ Count("validateRecommendation") = 1
         /\ validateRecommendation(lastOutput, userContext,
                                   classification.needs_recommendations).valid
         /\ response.recommendation =
              validateRecommendation(lastOutput, userContext,
                                     classification.needs_recommendations).data
    /\ StreamedOutputRejected =>
         /\ response.type = "error"
         /\ sse[Len(sse)].type = "error"
         /\ Len(Written("done", "success")) = 0

C15_Witness ==
  /\ StreamedOutputRejected
  /\ Len(SelectSeq(sse, LAMBDA e : e.type = "token")) = MaxTokens
  /\ sse[Len(sse)].type = "error"
  /\ response.layer = "LAYER-4:VALIDATOR"

----------------------------------------------------------------------------
(* SpecStreams: one streaming request, either POST /v1/chat through
   processChatStreaming or POST /recommend/stream through
   processQueryStreaming, whose capability calls return or throw *)

\* a handler that returns without ending the response
RecommendStreamReturns ==
  /\ mode = "processQueryStreaming"
  /\ pc = "done"
  /\ pc' = "ended"
  /\ UNCHANGED <<mode, userContext, classification, classifierCompletion, webSearchResult,
                 calls, attempt, lastOutput, lastErrors, repairResult, fedBack, outcomes,
                 thrownBy, response, propagated, sse, validatorVars, cacheVars,
                 chatVars, twinVars, connVars, extractVars, storeVars>>

\* the route handler after await processQueryStreaming(...): res.end()
RecommendStreamEnds ==
  /\ mode = "processQueryStreaming"
  /\ pc = "done"
  /\ pc' = "ended"
  /\ resEndCalls' = resEndCalls + 1
  /\ UNCHANGED <<mode, userContext, classification, classifierCompletion, webSearchResult,
                 calls, attempt, lastOutput, lastErrors, repairResult, fedBack, outcomes,
                 thrownBy, response, propagated, sse, abortedAt, validatorVars, cacheVars,
                 chatVars, twinVars, extractVars, storeVars>>

InitStreams ==
  /\ TwinParked
  /\ ExtractParked
  /\ StoreParked
  /\ ValidatorParked
  /\ PipelineParked
  /\ CacheParked
  /\ ChatParked

ClassifierAnswers == \E completion \in ClassifierCompletions : ClassifyQueryReturns(completion)
SearchAnswers ==
  \/ \E result \in WebSearchResults : PerformWebSearchReturns(result)
  \/ PerformWebSearchThrows
GeneratorAnswers ==
  \/ \E candidate \in GeneratorOutputs : GenerateStreamingReturns(candidate)
  \/ GenerateStreamingThrows
CompletionAnswers ==
  \/ createStreamingCompletionReturns
  \/ createStreamingCompletionThrows
StreamFinishes ==
  \/ StreamEnds
  \/ StreamThrows

NextStreams ==
  \/ /\ chatPc = "idle"
     /\ \E context \in RequestContexts : Start("processQueryStreaming", context)
  \/ ClassifierAnswers
  \/ RejectionToken
  \/ RejectionDone
  \/ ResponsesCreateThrows
  \/ SearchAnswers
  \/ StreamingToken
  \/ GeneratorAnswers
  \/ RecommendStreamEnds
  \/ /\ mode = "idle"
     /\ processChatStreaming
  \/ /\ mode = "idle"
     /\ setHeaderThrows
  \/ KeepaliveFires
  \/ CompletionAnswers
  \/ StreamChunk
  \/ StreamFinishes

\* every awaited capability call returns or throws, the timer of the rejection
\* words ends, and a handler that can continue does
FairStreams ==
  /\ WF_vars(ClassifierAnswers)
  /\ WF_vars(RejectionDone)
  /\ WF_vars(SearchAnswers)
  /\ WF_vars(GeneratorAnswers)
  /\ WF_vars(RecommendStreamEnds)
  /\ WF_vars(CompletionAnswers)
  /\ WF_vars(StreamFinishes)

SpecStreams == InitStreams /\ [][NextStreams]_vars /\ FairStreams

\* a streaming request has been received
StreamingRequest == chatPc # "idle" \/ mode = "processQueryStreaming"

\* C17 (the connection is always closed): a streaming request, through
\* processChatStreaming or through the /recommend/stream handler around
\* processQueryStreaming, eventually calls res.end(), and calls it exactly once,
\* on every exit path: success, rejection, validation error, thrown exception.
C17_ConnectionClosedOnce ==
  /\ [](resEndCalls <= 1)
  /\ []((chatPc = "done" \/ pc = "ended") => resEndCalls = 1)
  /\ StreamingRequest ~> (resEndCalls = 1)
  /\ StreamingRequest ~> (chatPc = "done" \/ pc = "ended")

C17_Witness ==
  /\ pc = "ended"
  /\ thrownBy = "generateStreamingRecommendation"
  /\ response.type = "error"
  /\ resEndCalls = 1

----------------------------------------------------------------------------
(* Properties of the /v1/chat stream (SpecChat) *)

\* the last two events written
LastTwo == SubSeq(resEvents, Len(resEvents) - 1, Len(resEvents))

\* resEvents after the step
FailedThenEnd ==
  /\ Len(resEvents') >= 2
  /\ resEvents'[Len(resEvents') - 1].type = "message.failed"
  /\ resEvents'[Len(resEvents')].type = "stream.end"
  /\ \A i \in 1..Len(resEvents') : resEvents'[i].type # "message.completed"

\* C16 (streaming failure protocol): whenever createStreamingCompletion or the
\* stream throws, a message.failed event is written, a stream.end event
\* follows it, and no message.completed event is written for the message.
C16_FailureProtocol ==
  /\ [][(setHeaderThrows \/ createStreamingCompletionThrows \/ StreamThrows)
          => FailedThenEnd]_vars
  /\ [](CountEvents("message.failed") > 0 =>
          /\ CountEvents("message.completed") = 0
          /\ CountEvents("message.failed") = 1
          /\ LastTwo[1].type = "message.failed"
          /\ LastTwo[2].type = "stream.end")

C16_Witness ==
  /\ chatPc = "done"
  /\ CountEvents("text.delta") = MaxDeltas
  /\ CountEvents("message.failed") = 1
  /\ resEvents[Len(resEvents)].type = "stream.end"

\* C18 (keepalive timer cleanup): the keepalive timer of processChatStreaming
\* is set only while the request is suspended at an await; once the request
\* has finished, on the normal and on the failure path, the timer is cleared
\* and no keepalive event is written after the stream.end event.
C18_KeepaliveCleared ==
  /\ keepaliveInterval => chatPc \in {"createStreamingCompletion", "stream"}
  /\ chatPc = "done" =>
       /\ ~keepaliveInterval
       /\ resEvents[Len(resEvents)].type = "stream.end"

C18_Witness ==
  /\ chatPc = "done"
  /\ ~keepaliveInterval
  /\ CountEvents("stream.keepalive") = MaxKeepalives
  /\ CountEvents("message.failed") = 1
  /\ CountEvents("text.delta") = 0

\* C19 as stated (cancellation): after the caller disconnects, no further
\* event is written for the request.
C19_NoEventAfterAbort ==
  abortedAt >= 0 => Len(resEvents) = abortedAt

\* the text.block.started events among the first k events whose block has not
\* been completed by one of the first k events
OpenBlocks(k) ==
  {i \in 1..k :
     /\ resEvents[i].type = "text.block.started"
     /\ \A j \in (i + 1)..k :
          ~(/\ resEvents[j].type = "text.block.completed"
            /\ resEvents[j].blockId = resEvents[i].blockId)}

\* C20 (single open block): at every point of the stream at most one block is
\* open; text.block.started is written only when no block is open, every
\* text.delta carries the id of the open block, and text.block.completed
\* carries that id and closes the block.
C20_SingleOpenBlock ==
  \A k \in 1..Len(resEvents) :
    /\ Cardinality(OpenBlocks(k)) <= 1
    /\ resEvents[k].type = "text.block.started" =>
         /\ OpenBlocks(k - 1) = {}
         /\ resEvents[k].blockId # 0
    /\ resEvents[k].type = "text.delta" =>
         \E i \in OpenBlocks(k - 1) : resEvents[i].blockId = resEvents[k].blockId
    /\ resEvents[k].type = "text.block.completed" =>
         /\ \E i \in OpenBlocks(k - 1) : resEvents[i].blockId = resEvents[k].blockId
         /\ OpenBlocks(k) = {}

C20_Witness ==
  /\ CountEvents("text.block.completed") = 1
  /\ CountEvents("text.delta") = MaxDeltas
  /\ CountEvents("stream.keepalive") > 0
  /\ OpenBlocks(Len(resEvents)) = {}

\* C21 as stated (event order): message.started is the first event of every
\* stream, stream.end is the last one, and nothing, not even a
\* stream.keepalive of the timer, is written after stream.end.
C21_EventOrder ==
  /\ Len(resEvents) > 0 => resEvents[1].type = "message.started"
  /\ \A i \in 1..Len(resEvents) :
       resEvents[i].type = "stream.end" => i = Len(resEvents)
  /\ resEnded => resEvents[Len(resEvents)].type = "stream.end"

----------------------------------------------------------------------------
(* Properties of the validator's stages and rules (SpecValidator) *)

\* validateRecommendation has returned
Validated == vResult # NoResult

\* the candidate with every HOLD amount of 0 replaced by 1
HoldZeroLifted(data) ==
  [data EXCEPT !.recommendations =
     [i \in 1..Len(data.recommendations) |->
        IF data.recommendations[i].action = "HOLD" /\ data.recommendations[i].amount = 0
        THEN [data.recommendations[i] EXCEPT !.amount = 1]
        ELSE data.recommendations[i]]]

\* C22 as stated (HOLD amount zero is permitted): a candidate that holds a HOLD
\* recommendation of amount 0 and is valid otherwise is accepted, and a
\* candidate with a BUY or SELL recommendation of amount 0 is rejected.
C22_HoldZeroPermitted ==
  Validated =>
    /\ (/\ \E i \in 1..Len(vData.recommendations) :
              /\ vData.recommendations[i].action = "HOLD"
              /\ vData.recommendations[i].amount = 0
        /\ validateRecommendation(HoldZeroLifted(vData), vContext, vNeeds).valid)
         => vResult.valid
    /\ (\E i \in 1..Len(vData.recommendations) :
          /\ vData.recommendations[i].action \in {"BUY", "SELL"}
          /\ vData.recommendations[i].amount = 0)
         => ~vResult.valid

\* C23 as stated (shape selection): with needsRecommendations = false, a
\* narrative-only candidate (conversational_response, context and situation
\* present, no analysis and no recommendations) is accepted.
C23_NarrativeOnlyAccepted ==
  (/\ Validated
   /\ vNeeds = Some(FALSE)
   /\ vData.keys = {"conversational_response", "context", "situation"}
   /\ vData.recommendations = <<>>)
    => vResult.valid

\* the sum of the amounts of all recommendations, whatever their action
GrossAmount(recs) == SumOf(recs, "BUY") + SumOf(recs, "SELL") + SumOf(recs, "HOLD")

C28_ShortCircuit ==
  Validated =>
    /\ ~validateSchema(vData).valid =>
         /\ ~vResult.valid
         /\ vResult.errors = RecommendationOutputIssues(vData)
         /\ \A k \in 1..Len(vResult.errors) : vResult.errors[k].rule = "schema"
    /\ (\E k \in 1..Len(vResult.errors) : vResult.errors[k].rule # "schema") =>
         /\ validateSchema(vData).valid
         /\ \A k \in 1..Len(vResult.errors) : vResult.errors[k].rule # "schema"

\* rejected by the schema alone although business rules are violated as well
C28_Witness ==
  /\ Validated
  /\ ~validateSchema(vData).valid
  /\ vNeeds = Some(TRUE)
  /\ Len(NetMoneyErrors(vData.recommendations, computeDerivedMetrics(vContext))) > 0
  /\ Len(ForbiddenErrors(vData.recommendations)) > 0
  /\ \A k \in 1..Len(vResult.errors) : vResult.errors[k].rule = "schema"

\* the result has an error of one of the given rules
HasError(rules) == \E k \in 1..Len(vResult.errors) : vResult.errors[k].rule \in rules

\* the rules the candidate violates, read off the candidate
BreaksNetMoney ==
  SumOf(vData.recommendations, "BUY") - SumOf(vData.recommendations, "SELL") > Surplus
BreaksAmountSign ==
  \E i \in 1..Len(vData.recommendations) :
    IF vData.recommendations[i].action = "HOLD"
    THEN vData.recommendations[i].amount < 0
    ELSE vData.recommendations[i].amount <= 0
BreaksForbidden ==
  \E i \in 1..Len(vData.recommendations) : ContainsForbidden(vData.recommendations[i])
BreaksCategory ==
  \E i \in 1..Len(vData.recommendations) :
    vData.recommendations[i].instrument.category \notin allowedCategories
BreaksExecution ==
  \E i \in 1..Len(vData.recommendations) :
    vData.recommendations[i].execution.enabled # FALSE

\* C29 (all violated rules are collected): for a candidate that passes the
\* schema, with needsRecommendations = true and at least one recommendation,
\* the returned errors hold an error of a rule exactly when the candidate
\* violates that rule (net money, amount sign, forbidden pattern, category,
\* execution), and the list is empty exactly when no rule is violated.
C29_AllRulesCollected ==
  (/\ Validated
   /\ validateSchema(vData).valid
   /\ DefaultTrue(vNeeds)
   /\ Len(vData.recommendations) > 0) =>
     /\ BreaksNetMoney <=> HasError({"net_money"})
     /\ BreaksAmountSign <=> HasError({"amount", "hold_amount"})
     /\ BreaksForbidden <=> HasError({"forbidden"})
     /\ BreaksCategory <=> HasError({"category"})
     /\ BreaksExecution <=> HasError({"execution"})
     /\ (vResult.errors = <<>>) <=>
          ~(BreaksNetMoney \/ BreaksAmountSign \/ BreaksForbidden
              \/ BreaksCategory \/ BreaksExecution)
     /\ vResult.valid <=> (vResult.errors = <<>>)

\* two rules violated by one candidate, both reported
C29_Witness ==
  /\ Validated
  /\ validateSchema(vData).valid
  /\ DefaultTrue(vNeeds)
  /\ BreaksNetMoney
  /\ BreaksForbidden
  /\ HasError({"net_money"})
  /\ HasError({"forbidden"})

\* the text matches a pattern of the deny-list, in whatever letter case
Mentions(text) == \E k \in 1..Len(FORBIDDEN_PATTERNS) : Test(FORBIDDEN_PATTERNS[k], text)

\* a recommendation under an allowed category that names a forbidden instrument
Disguised(rec) ==
  /\ rec.instrument.category \in allowedCategories
  /\ Mentions(rec.instrument.name) \/ Mentions(rec.rationale)

\* C30 (the forbidden-pattern scan is independent of the category): with
\* needsRecommendations = true, a candidate with a recommendation whose
\* category is allowed and whose instrument name or rationale matches a
\* deny-list pattern, in any letter case, is rejected; no accepted artifact
\* holds such a recommendation.
C30_ForbiddenScan ==
  /\ (/\ Validated
      /\ DefaultTrue(vNeeds)
      /\ \E i \in 1..Len(vData.recommendations) : Disguised(vData.recommendations[i]))
       => ~vResult.valid
  /\ AcceptedStructured =>
       \A i \in 1..Len(vResult.data.recommendations) :
         ~Disguised(vResult.data.recommendations[i])

\* an upper-case STOCK under index_fund: the scan is the only rule that objects
C30_Witness ==
  /\ Validated
  /\ vNeeds = Some(TRUE)
  /\ validateSchema(vData).valid
  /\ Len(vData.recommendations) = 1
  /\ vData.recommendations[1].instrument.name = TextSTOCK
  /\ vData.recommendations[1].instrument.category = "index_fund"
  /\ ~vResult.valid
  /\ Len(vResult.errors) = 1
  /\ vResult.errors[1].rule = "forbidden"

----------------------------------------------------------------------------
(* Properties of the repair loop's feedback and result (Spec) *)

\* C25 as stated (repair feedback pairing): generation call n >= 2 of the loop
\* is given the output and the error list of call n - 1 together: after a
\* rejected call its output and the validator's errors for that output, after
\* a call that threw its one error message and no output of an earlier call.
C25_FeedbackPairing ==
  \A n \in 2..Len(fedBack) :
    /\ outcomes[n - 1] = "rejected" =>
         /\ fedBack[n].output # NoData
         /\ fedBack[n].errors =
              validateRecommendation(fedBack[n].output, userContext,
                                     classification.needs_recommendations).errors
    /\ outcomes[n - 1] = "threw" =>
         /\ fedBack[n].errors = Thrown
         /\ fedBack[n].output = NoData

\* every attempt of the loop has failed
Exhausted ==
  /\ pc = "done"
  /\ Len(outcomes) = MAX_REPAIR_ATTEMPTS + 1
  /\ \A k \in 1..Len(outcomes) : outcomes[k] # "accepted"

\* the error list of the final attempt: the validator's errors for its output,
\* or the one message of its exception
FinalErrors ==
  IF outcomes[Len(outcomes)] = "rejected"
  THEN validateRecommendation(lastOutput, userContext,
                              classification.needs_recommendations).errors
  ELSE Thrown

\* C26 (last error set only): when all attempts fail, the result of the repair
\* loop has success = false, attempts = 3 and exactly the error list of the
\* final attempt; the errors of the earlier attempts are not in it.
C26_LastErrorsOnly ==
  Exhausted =>
    /\ ~repairResult.success
    /\ repairResult.attempts = MAX_REPAIR_ATTEMPTS + 1
    /\ repairResult.errors = FinalErrors
    /\ Len(repairResult.errors) = Len(FinalErrors)

\* the three attempts failed in three different ways
C26_Witness ==
  /\ Exhausted
  /\ outcomes = <<"rejected", "threw", "rejected">>
  /\ fedBack[2].errors # repairResult.errors
  /\ fedBack[3].errors # repairResult.errors
  /\ Len(repairResult.errors) = 1

----------------------------------------------------------------------------
(* Properties of the cache entries (SpecCache) *)

\* the last searchCache.set for the key among the first n ones (0 if none)
LastStore(key, n) ==
  IF \A i \in 1..n : stores[i].key # key THEN 0
  ELSE CHOOSE i \in 1..n :
         stores[i].key = key /\ \A j \in (i + 1)..n : stores[j].key # key

\* C27 as stated (unexpired cache entries are immutable): an entry stored under
\* a key is not replaced by a different result before its TTL has expired,
\* concurrent calls for the key included, and every call for the key that
\* begins before the expiry returns the stored result.
C27_UnexpiredImmutable ==
  /\ \A j \in 1..Len(stores) :
       LET i == LastStore(stores[j].key, j - 1)
       IN i # 0 => \/ stores[j].timestamp - stores[i].timestamp >= CACHE_TTL_MS
                   \/ stores[j].result = stores[i].result
  /\ \A c \in 1..Len(returned) :
       LET i == LastStore(returned[c].key, returned[c].seen)
       IN (i # 0 /\ returned[c].startedAt - stores[i].timestamp < CACHE_TTL_MS) =>
            /\ returned[c].hit
            /\ returned[c].result = stores[i].result

-----------------------------------------------------------------------------
(* Properties of the classification's confidence (SpecTwin) *)

\* the number of generation calls the loop of generateValidatedRecommendation
\* makes from iteration a on
RECURSIVE generationCallsFrom(_, _, _, _)
generationCallsFrom(outputs, context, needs, a) ==
  IF ~LoopContinues(a) THEN 0
  ELSE IF /\ outputs[a + 1].kind = "returns"
          /\ validateRecommendation(outputs[a + 1].parsed, context, needs).valid
       THEN 1
       ELSE 1 + generationCallsFrom(outputs, context, needs, a + 1)

\* the stage calls processQuery makes, in order
processQueryCalls(i) ==
  LET c == classifyQuery(i.completion)
      n == generationCallsFrom(i.outputs, i.context, c.needs_recommendations, 0)
  IN <<"classifyQuery">> \o
     (IF Rejects(c) THEN <<>>
      ELSE <<"validateUserContext">> \o
        (IF ~validateUserContext(i.context).valid THEN <<>>
         ELSE (IF NeedsWebSearch(c) THEN <<"performWebSearch">> ELSE <<>>) \o
           (IF NeedsWebSearch(c) /\ i.search = "throws" THEN <<>>
            ELSE [k \in 1..n |-> "generateRecommendation"])))

\* two classifications that differ at most in their confidence
SameButConfidence(c, d) ==
  /\ c.is_indian_finance = d.is_indian_finance
  /\ c.needs_web_search = d.needs_web_search
  /\ c.needs_recommendations = d.needs_recommendations

\* the inputs of the request with the completion's confidence replaced
WithConfidence(i, k) == [i EXCEPT !.completion.confidence = k]

ConfidenceValues == {c.confidence : c \in ClassifierCompletions}

\* C31 (confidence does not gate): a run of processQuery and any run whose
\* classification differs from its own only in the confidence value, with the
\* same profile and the same downstream answers, make the same sequence of
\* stage calls and return a response of the same type.
C31_ConfidenceDoesNotGate ==
  twinSync # "" =>
    \A k \in ConfidenceValues :
      LET j == WithConfidence(twinInputs, k)
      IN SameButConfidence(classifyQuery(twinInputs.completion),
                           classifyQuery(j.completion))
         => /\ twinSync = processQueryType(j)
            /\ processQueryCalls(twinInputs) = processQueryCalls(j)

\* a request classified with confidence 3 succeeded after a search and a
\* repair, and the same request with confidence 9 is classified alike
C31_Witness ==
  /\ twinSync = "success"
  /\ classifyQuery(twinInputs.completion).confidence = 3
  /\ classifyQuery(WithConfidence(twinInputs, 9).completion).confidence = 9
  /\ SameButConfidence(classifyQuery(twinInputs.completion),
                       classifyQuery(WithConfidence(twinInputs, 9).completion))
  /\ Len(processQueryCalls(twinInputs)) >= 4

-----------------------------------------------------------------------------
(* SpecExtract: generateStreamingRecommendation reading one completion stream
   (layers/streamingRecommender.ts); a string is a sequence of characters *)

\* the longest value of the narrative field, and the longest stream chunk
MaxBody == 3
MaxChunk == 3

\* the quoted key the extractor looks for, '"conversational_response"', with
\* the key shortened to one letter
marker == <<"\"", "k", "\"">>

\* String.prototype.indexOf(pattern, from) with 1-based positions: 0 when the
\* pattern does not occur at or after from
IndexOf(str, pattern, from) ==
  LET hits == {i \in from..(Len(str) - Len(pattern) + 1) :
                 SubSeq(str, i, i + Len(pattern) - 1) = pattern}
  IN IF hits = {} THEN 0 ELSE CHOOSE i \in hits : \A j \in hits : i <= j

\* the for loop over the characters after the colon: the position of the
\* opening quote, 0 when the text ends first, -1 when the value is not a string
RECURSIVE OpenQuoteIndex(_, _)
OpenQuoteIndex(partialJson, i) ==
  IF i > Len(partialJson) THEN 0
  ELSE IF partialJson[i] = "\"" THEN i
  ELSE IF partialJson[i] \notin {" ", "\n", "\t"} THEN -1
  ELSE OpenQuoteIndex(partialJson, i + 1)

\* the switch over the character after a backslash
EscapeSequence(char) ==
  CASE char = "n" -> "\n"
    [] char = "t" -> "\t"
    [] char = "r" -> "\r"
    [] OTHER -> char

\* the while loop: the content between the quotes from position i on
RECURSIVE StringContent(_, _, _)
StringContent(partialJson, i, escaped) ==
  IF i > Len(partialJson) THEN <<>>
  ELSE LET char == partialJson[i]
       IN IF escaped
          THEN <<EscapeSequence(char)>> \o StringContent(partialJson, i + 1, FALSE)
          ELSE IF char = "\\" THEN StringContent(partialJson, i + 1, TRUE)
          ELSE IF char = "\"" THEN <<>>
          ELSE <<char>> \o StringContent(partialJson, i + 1, FALSE)

\* an extractor that passes the whole content found so far to onToken
extractAndStreamWholeContent(partialJson, last) ==
  LET markerIndex == IndexOf(partialJson, marker, 1)
      colonIndex == IndexOf(partialJson, <<":">>, markerIndex + Len(marker))
      openQuoteIndex == OpenQuoteIndex(partialJson, colonIndex + 1)
      content == StringContent(partialJson, openQuoteIndex + 1, FALSE)
  IN IF markerIndex = 0 \/ colonIndex = 0 \/ openQuoteIndex <= 0
     THEN [called |-> FALSE, token |-> <<>>, length |-> last]
     ELSE IF Len(content) > last
     THEN [called |-> TRUE, token |-> content, length |-> Len(content)]
     ELSE [called |-> FALSE, token |-> <<>>, length |-> last]

\* extractAndStreamConversationalContent(partialJson, lastStreamedLength,
\* callbacks): whether onToken is called, with what text, and the value returned
extractAndStreamConversationalContent(partialJson, last) ==
  LET markerIndex == IndexOf(partialJson, marker, 1)
      colonIndex == IndexOf(partialJson, <<":">>, markerIndex + Len(marker))
      openQuoteIndex == OpenQuoteIndex(partialJson, colonIndex + 1)
      content == StringContent(partialJson, openQuoteIndex + 1, FALSE)
  IN IF markerIndex = 0 \/ colonIndex = 0 \/ openQuoteIndex <= 0
     THEN [called |-> FALSE, token |-> <<>>, length |-> last]
     ELSE IF Len(content) > last
     THEN [called |-> TRUE, token |-> SubSeq(content, last + 1, Len(content)),
           length |-> Len(content)]
     ELSE [called |-> FALSE, token |-> <<>>, length |-> last]

\* the characters of a narrative value
BodyChars == {"a", "\\", "n", "\""}

RECURSIVE SeqsUpTo(_, _)
SeqsUpTo(S, n) ==
  IF n = 0 THEN {<<>>}
  ELSE LET shorter == SeqsUpTo(S, n - 1)
       IN shorter \cup {Append(q, c) : q \in shorter, c \in S}

\* the raw outputs a completion stream delivers: what precedes the key (in
\* the second head the key's text is also an earlier value), what stands
\* between key and value, the value's characters, and what follows
RawHeads == {<<"{">>, <<"{", "\"", "a", "\"", ":", "\"", "k", "\"", ",">>}
RawSeparators == {<<":">>, <<":", " ">>, <<":", "1">>, <<>>}
RawTails == {<<>>, <<"\"", "}">>}
RawOutputs ==
  {h \o marker \o p \o <<"\"">> \o b \o t :
     h \in RawHeads, p \in RawSeparators, b \in SeqsUpTo(BodyChars, MaxBody),
     t \in RawTails}
  \cup {<<"{", "\"", "a", "\"", ":", "\"", "a", "\"", "}">>}

Min(a, b) == IF a < b THEN a ELSE b

\* one iteration of for await (const chunk of stream): the token is appended
\* to fullContent and the extractor runs over all of fullContent
RecommendationChunk(n) ==
  /\ streamRest # <<>>
  /\ n <= Len(streamRest)
  /\ LET token == SubSeq(streamRest, 1, n)
         r == extractAndStreamConversationalContent(fullContent \o token,
                                                    lastStreamedLength)
     IN /\ fullContent' = fullContent \o token
        /\ streamRest' = SubSeq(streamRest, n + 1, Len(streamRest))
        /\ lastStreamedLength' = r.length
        /\ streamed' = streamed \o r.token
        /\ lastToken' = r.token
  /\ UNCHANGED <<validatorVars, pipelineVars, cacheVars, chatVars, twinVars,
                 connVars, storeVars>>

InitExtract ==
  /\ streamRest \in RawOutputs
  /\ fullContent = <<>>
  /\ lastStreamedLength = 0
  /\ streamed = <<>>
  /\ lastToken = <<>>
  /\ StoreParked
  /\ TwinParked
  /\ ValidatorParked
  /\ PipelineParked
  /\ CacheParked
  /\ ChatParked

NextExtract == \E n \in 1..MaxChunk : RecommendationChunk(n)

SpecExtract == InitExtract /\ [][NextExtract]_vars

\* the narrative the extractor decodes from a text given to it in one piece
Decoded(json) == extractAndStreamConversationalContent(json, 0).token

IsPrefix(p, q) == Len(p) <= Len(q) /\ SubSeq(q, 1, Len(p)) = p

\* C32 (incremental narrative extraction): at every point of the stream the
\* texts passed to onToken, concatenated, are the narrative the extractor
\* decodes from what was received so far and a prefix of the narrative of the
\* complete raw output; a call passes only characters beyond those already
\* passed; and when the stream has ended the concatenation is the narrative
\* decoded from the complete raw output, whatever the chunk boundaries were.
C32_IncrementalExtraction ==
  /\ streamed = Decoded(fullContent)
  /\ lastStreamedLength = Len(streamed)
  /\ IsPrefix(streamed, Decoded(fullContent \o streamRest))

\* a stream has ended whose narrative holds a decoded line feed and was
\* passed to onToken in more than one call
C32_Witness ==
  /\ streamRest = <<>>
  /\ streamed = <<"\n", "a">>
  /\ lastToken # <<>>
  /\ lastToken # streamed

-----------------------------------------------------------------------------
(* SpecStore: chat requests and deletions sharing the conversations Map
   (services/chat.service.ts) *)

\* the number of chat requests
MaxRequests == 2

Requests == 1..MaxRequests

\* a conversation id no uuidv4() call of this process produced
StaleId == MaxRequests + 1

\* a request that has not arrived; conversationId 0 is an absent or empty id
NoRequest ==
  [pc |-> "idle", conversationId |-> 0, streaming |-> FALSE, conversation |-> 0,
   isNew |-> FALSE]

\* a lookup that creates a conversation for every request
getOrCreateAlwaysNew(conversationId) == [id |-> uuids + 1, isNew |-> TRUE]

\* getOrCreateConversation(conversationId, model): the id of the conversation
\* returned and isNew
getOrCreateConversation(conversationId) ==
  IF conversationId # 0 /\ conversationId \in conversations
  THEN [id |-> conversationId, isNew |-> FALSE]
  ELSE [id |-> uuids + 1, isNew |-> TRUE]

\* getConversation(conversationId): null is Undefined
getConversation(conversationId) ==
  IF conversationId \in conversations
  THEN Some(conversationObjects[conversationId])
  ELSE Undefined

\* processChatStreaming / processChatNonStreaming up to the completion call:
\* the conversation is looked up or created and the user message is pushed
chatRequest(r, conversationId, streaming) ==
  /\ requests[r].pc = "idle"
  /\ LET g == getOrCreateConversation(conversationId)
         userMessage == [role |-> "user", request |-> r]
     IN /\ conversations' = IF g.isNew THEN conversations \cup {g.id} ELSE conversations
        /\ uuids' = IF g.isNew THEN uuids + 1 ELSE uuids
        /\ conversationObjects' =
             IF g.isNew
             THEN Append(conversationObjects, [id |-> g.id, messages |-> <<userMessage>>])
             ELSE [conversationObjects EXCEPT ![g.id].messages = Append(@, userMessage)]
        /\ requests' = [requests EXCEPT ![r] =
             [pc |-> "generating", conversationId |-> conversationId,
              streaming |-> streaming, conversation |-> g.id, isNew |-> g.isNew]]
  /\ UNCHANGED <<deleted, raced, validatorVars, pipelineVars, cacheVars, chatVars,
                 twinVars, connVars, extractVars>>

\* a completion that puts the conversation back into the Map
completionReturnsReinserts(r) ==
  /\ requests[r].pc = "generating"
  /\ conversationObjects' =
       [conversationObjects EXCEPT ![requests[r].conversation].messages =
          Append(@, [role |-> "assistant", request |-> r])]
  /\ conversations' = conversations \cup {requests[r].conversation}
  /\ requests' = [requests EXCEPT ![r].pc = "done"]
  /\ UNCHANGED <<uuids, deleted, raced, validatorVars, pipelineVars,
                 cacheVars, chatVars, twinVars, connVars, extractVars>>

\* the completion (or the whole stream) arrived: the assistant message is
\* pushed onto the conversation object the request holds
completionReturns(r) ==
  /\ requests[r].pc = "generating"
  /\ conversationObjects' =
       [conversationObjects EXCEPT ![requests[r].conversation].messages =
          Append(@, [role |-> "assistant", request |-> r])]
  /\ requests' = [requests EXCEPT ![r].pc = "done"]
  /\ UNCHANGED <<conversations, uuids, deleted, raced, validatorVars, pipelineVars,
                 cacheVars, chatVars, twinVars, connVars, extractVars>>

\* a failure that takes the request's user message back
completionThrowsDropsUser(r) ==
  /\ requests[r].pc = "generating"
  /\ conversationObjects' =
       [conversationObjects EXCEPT ![requests[r].conversation].messages =
          SelectSeq(@, LAMBDA m : m.request # r)]
  /\ requests' = [requests EXCEPT ![r].pc = "failed"]
  /\ UNCHANGED <<conversations, uuids, deleted, raced, validatorVars,
                 pipelineVars, cacheVars, chatVars, twinVars, connVars, extractVars>>

\* generation failed: the streaming request's catch block writes its events,
\* the non-streaming request's rejection leaves processChatNonStreaming
completionThrows(r) ==
  /\ requests[r].pc = "generating"
  /\ requests' = [requests EXCEPT ![r].pc = "failed"]
  /\ UNCHANGED <<conversations, conversationObjects, uuids, deleted, raced, validatorVars,
                 pipelineVars, cacheVars, chatVars, twinVars, connVars, extractVars>>

\* deleteConversation(conversationId): conversations.delete
deleteConversation(conversationId) ==
  /\ conversations' = conversations \ {conversationId}
  /\ deleted' = IF conversationId \in conversations
                THEN deleted \cup {conversationId} ELSE deleted
  /\ raced' = IF conversationId \in conversations
              THEN raced \cup {r \in Requests : /\ requests[r].pc = "generating"
                                                /\ requests[r].conversation = conversationId}
              ELSE raced
  /\ UNCHANGED <<conversationObjects, uuids, requests, validatorVars, pipelineVars,
                 cacheVars, chatVars, twinVars, connVars, extractVars>>

InitStore ==
  /\ conversations = {}
  /\ conversationObjects = <<>>
  /\ uuids = 0
  /\ requests = [r \in Requests |-> NoRequest]
  /\ deleted = {}
  /\ raced = {}
  /\ ExtractParked
  /\ TwinParked
  /\ ValidatorParked
  /\ PipelineParked
  /\ CacheParked
  /\ ChatParked

NextStore ==
  \/ \E r \in Requests, conversationId \in (0..uuids) \cup {StaleId},
        streaming \in BOOLEAN : chatRequest(r, conversationId, streaming)
  \/ \E r \in Requests : completionReturns(r)
  \/ \E r \in Requests : completionThrows(r)
  \/ \E conversationId \in (1..uuids) \cup {StaleId} : deleteConversation(conversationId)

SpecStore == InitStore /\ [][NextStore]_vars

\* request r entered the service in this step
Arrives(r) == requests[r].pc = "idle" /\ requests'[r].pc # "idle"

\* C33 (lazy conversation creation): a request without an id, or with an id
\* that is not a key of the Map, adds exactly one conversation, under an id
\* never produced before, holding only the request's user message, and gets
\* isNew = true; a request with an id that is a key of the Map leaves the set
\* of conversations as it is, appends its user message to that conversation
\* and gets isNew = false.
C33_LazyCreation ==
  [][\A r \in Requests :
       Arrives(r) =>
         LET q == requests'[r]
             userMessage == [role |-> "user", request |-> r]
         IN IF q.conversationId \in conversations
            THEN /\ ~q.isNew
                 /\ q.conversation = q.conversationId
                 /\ conversations' = conversations
                 /\ Len(conversationObjects') = Len(conversationObjects)
                 /\ conversationObjects'[q.conversation].messages =
                      Append(conversationObjects[q.conversation].messages, userMessage)
            ELSE /\ q.isNew
                 /\ q.conversation \notin 1..uuids
                 /\ q.conversation # q.conversationId
                 /\ conversations' = conversations \cup {q.conversation}
                 /\ q.conversation \notin conversations
                 /\ Len(conversationObjects') = Len(conversationObjects) + 1
                 /\ conversationObjects'[q.conversation].messages = <<userMessage>>]_vars

\* one request continued an existing conversation and another, which named an
\* id that is not in the Map, was given a new one
C33_Witness ==
  \E r, o \in Requests :
    /\ requests[r].pc # "idle" /\ ~requests[r].isNew
    /\ requests[r].conversation = requests[r].conversationId
    /\ requests[o].pc # "idle" /\ requests[o].isNew
    /\ requests[o].conversationId = StaleId

-----------------------------------------------------------------------------
(* Properties of the events of /recommend/stream (Spec) *)

\* the positions of the done and error events among the SSE events written
TerminalEvents == {i \in 1..Len(sse) : sse[i].type \in {"done", "error"}}

\* C34 (exactly one terminal event in the finance stream): a run of
\* processQueryStreaming never writes more than one done or error event, writes
\* nothing after it, and has written exactly one when it has ended.
C34_OneTerminalEvent ==
  mode = "processQueryStreaming" =>
    /\ Cardinality(TerminalEvents) <= 1
    /\ TerminalEvents # {} => TerminalEvents = {Len(sse)} /\ pc = "done"
    /\ pc = "done" => Cardinality(TerminalEvents) = 1

\* the stream of a run whose generation threw after the tokens: one error
\* event, written last
C34_Witness ==
  /\ mode = "processQueryStreaming"
  /\ pc = "done"
  /\ thrownBy = "generateStreamingRecommendation"
  /\ Len(SelectSeq(sse, LAMBDA e : e.type = "token")) = MaxTokens
  /\ TerminalEvents = {Len(sse)}
  /\ sse[Len(sse)].type = "error"

-----------------------------------------------------------------------------
(* Properties of hits, misses and stored results of searchCache (SpecCache) *)

\* the searchCache.set calls made by the call with the given id
StoresOf(id) == {i \in 1..Len(stores) : stores[i].id = id}

\* the calls that ended after a retrieval of their own
Missed == {c \in 1..Len(returned) : ~returned[c].hit /\ ~returned[c].threw}

\* the Map holds, under every key, what the latest set call for the key wrote
HoldsLatestStore ==
  /\ DOMAIN searchCache = {stores[i].key : i \in 1..Len(stores)}
  /\ \A key \in DOMAIN searchCache :
       LET l == LastStore(key, Len(stores))
       IN searchCache[key] = [result |-> stores[l].result,
                              timestamp |-> stores[l].timestamp]

\* C35 (overlapping cache misses): every call that missed, also one that
\* missed while another call for the same key was already retrieving, made its
\* own retrieval, returned the result of that retrieval and stored it in one
\* set call; the Map holds under the key what the call that completed last
\* stored.
C35_OverlappingMisses ==
  /\ \A c \in Missed :
       /\ Cardinality(StoresOf(returned[c].id)) = 1
       /\ \A i \in StoresOf(returned[c].id) :
            /\ stores[i].key = returned[c].key
            /\ stores[i].result = returned[c].result
  /\ HoldsLatestStore

\* two calls for one key both missed, the second began before the first had
\* stored, they returned different results, and the Map holds the result of
\* the one that completed last
C35_Witness ==
  \E c, d \in Missed :
    /\ c < d
    /\ returned[c].key = returned[d].key
    /\ \A i \in StoresOf(returned[c].id) : returned[d].seen < i
    /\ returned[c].result # returned[d].result
    /\ searchCache[returned[d].key].result = returned[d].result
    /\ LastStore(returned[d].key, Len(stores)) \in StoresOf(returned[d].id)

\* a call was served from the cache in this step
HitStep == Len(returned') = Len(returned) + 1 /\ returned'[Len(returned')].hit

\* C36 (a cache hit changes nothing): a hit returns the result of the latest
\* set call for its key, begins less than the TTL after that set call however
\* many hits came before, makes no retrieval and no set call and leaves the Map
\* as it was; no step removes a key from the Map, so an expired entry stays
\* until a set call for its key replaces it.
C36_HitChangesNothing ==
  /\ [][HitStep => /\ searchCache' = searchCache
                   /\ stores' = stores
                   /\ pending' = pending]_vars
  /\ [][\A key \in DOMAIN searchCache :
          /\ key \in DOMAIN searchCache'
          /\ searchCache'[key] # searchCache[key] =>
               /\ Len(stores') = Len(stores) + 1
               /\ stores'[Len(stores')].key = key]_vars
  /\ [](\A c \in 1..Len(returned) :
          returned[c].hit =>
            LET l == LastStore(returned[c].key, returned[c].seen)
            IN /\ l # 0
               /\ returned[c].result = stores[l].result
               /\ returned[c].startedAt - stores[l].timestamp < CACHE_TTL_MS
               /\ StoresOf(returned[c].id) = {})

\* an entry was read by a hit some time after it was stored, and a call that
\* began the TTL after the store has missed while the expired entry is still
\* in the Map with its first timestamp
C36_Witness ==
  \E c \in 1..Len(returned) :
    /\ returned[c].hit
    /\ returned[c].startedAt > searchCache[returned[c].key].timestamp
    /\ \E p \in pending :
         /\ p.key = returned[c].key
         /\ p.startedAt - searchCache[p.key].timestamp >= CACHE_TTL_MS
         /\ Len(stores) = 1

\* C37 as stated (degraded results are cached): every result a miss returns
\* is stored, a result with no funds included, and every call for the key
\* that begins after a result with no funds was stored, and less than the TTL
\* after, is served that result without a retrieval.
C37_DegradedServed ==
  /\ \A c \in Missed : StoresOf(returned[c].id) # {}
  /\ \A i \in 1..Len(stores) :
       stores[i].result.funds = 0 =>
         \A c \in 1..Len(returned) :
           (/\ returned[c].key = stores[i].key
            /\ returned[c].seen >= i
            /\ returned[c].startedAt - stores[i].timestamp < CACHE_TTL_MS) =>
              /\ returned[c].hit
              /\ returned[c].result = stores[i].result

-----------------------------------------------------------------------------
(* Properties of conversations under failure and deletion (SpecStore) *)

\* the messages of the conversation object request r holds
MessagesOf(r) == conversationObjects[requests[r].conversation].messages

\* the positions of request r's messages of a role in its conversation
Own(r, role) ==
  {i \in 1..Len(MessagesOf(r)) : MessagesOf(r)[i] = [role |-> role, request |-> r]}

\* C38 (conversation state on failure): from its arrival on a request's user
\* message is in its conversation exactly once, also after generation failed;
\* the request's assistant message is there only when generation completed,
\* once and after the user message; the step in which a request fails changes
\* no conversation; and every step leaves the messages every conversation
\* object already had in place and in order, only appending to them.
C38_StateOnFailure ==
  /\ [](\A r \in Requests :
          /\ requests[r].pc \in {"generating", "failed"} =>
               /\ Cardinality(Own(r, "user")) = 1
               /\ Own(r, "assistant") = {}
          /\ requests[r].pc = "done" =>
               /\ Cardinality(Own(r, "user")) = 1
               /\ Cardinality(Own(r, "assistant")) = 1
               /\ \A u \in Own(r, "user"), a \in Own(r, "assistant") : u < a)
  /\ [][\A r \in Requests :
          (requests[r].pc = "generating" /\ requests'[r].pc = "failed") =>
            conversationObjects' = conversationObjects]_vars
  /\ [][\A id \in 1..Len(conversationObjects) :
          /\ id <= Len(conversationObjects')
          /\ IsPrefix(conversationObjects[id].messages,
                      conversationObjects'[id].messages)]_vars

\* a request failed on a conversation on which an earlier request completed:
\* the conversation ends with the failed request's user message
C38_Witness ==
  \E r, o \in Requests :
    /\ requests[r].pc = "failed"
    /\ requests[o].pc = "done"
    /\ requests[r].conversation = requests[o].conversation
    /\ MessagesOf(r) = <<[role |-> "user", request |-> o],
                         [role |-> "assistant", request |-> o],
                         [role |-> "user", request |-> r]>>

\* C39 (delete wins over an in-flight request): an id for which
\* deleteConversation returned true is not a key of the Map in any later
\* state, so getConversation returns null for it, also after a request that
\* was generating on that conversation has completed; and no second
\* conversation is ever created under an id that was used before.
C39_DeleteWins ==
  /\ \A id \in deleted : getConversation(id) = Undefined
  /\ \A r, o \in Requests :
       (/\ r # o
        /\ requests[r].isNew
        /\ requests[o].isNew) => requests[r].conversation # requests[o].conversation
  /\ \A r \in Requests : requests[r].isNew => requests[r].conversation \in 1..uuids
  /\ Len(conversationObjects) = uuids
  /\ conversations \subseteq 1..uuids

\* a conversation was deleted while a request was generating on it; that
\* request has completed and pushed its assistant message, and a later request
\* that named the deleted id was given a new conversation
C39_Witness ==
  \E r \in raced, o \in Requests :
    /\ requests[r].pc = "done"
    /\ requests[r].conversation \in deleted
    /\ Own(r, "assistant") # {}
    /\ requests[o].conversationId = requests[r].conversation
    /\ requests[o].isNew
    /\ requests[o].conversation # requests[r].conversation

====
